---- MODULE Spec2Model ----
(***************************************************************************)
(* Model of the Telegram auto-forwarder bot (src/bot.py): the mutable      *)
(* configuration, the webhook update handlers (channel posts, private      *)
(* messages, callback queries) and the text-replacement engine.            *)
(*                                                                         *)
(* Python strings are sequences of one-character strings, so that          *)
(* startswith, strip, split, lower, replace and re.sub are computed, not   *)
(* assumed.  Python dicts that the code iterates (the three rule           *)
(* categories) are insertion-ordered sequences of <<key, value>> pairs;    *)
(* dicts that the code only indexes (posts, messages) are functions whose  *)
(* DOMAIN is the set of keys present.                                      *)
(***************************************************************************)
EXTENDS Integers, Sequences, FiniteSets, TLC

VARIABLES
    config,                   \* self.config (BotConfig): admin_users, source_channels,
                              \* target_channel, replacements, forwarding_enabled
    expecting_first_admin_id, \* self._expecting_first_admin_id: <<>> while the attribute
                              \* does not exist, <<chat_id>> once /start set it
    config_file,              \* bot_config.json: <<>> (no file) or <<saved config>>
    update,                   \* the update process_update handled last
    handled,                  \* the handlers that ran for it, in call order
    api_calls,                \* the Bot API requests issued for it, in order
    log,                      \* what handle_channel_post logged for it
    escaped,                  \* <<>>, or <<exception>> that left the top-level handler
                              \* (handle_channel_post / handle_message /
                              \* handle_callback_query) and was caught by process_update
    nupdates,                 \* number of updates processed so far
    text,                     \* apply_replacements: the argument
    modified_text,            \* apply_replacements: the local of the same name
    pc,                       \* apply_replacements: position in the function body
    returned,                 \* apply_replacements: <<>> or <<return value>>
    fault,                    \* apply_replacements: <<>> or <<exception caught at line 142>>
    tasks,                    \* the event loop: the tasks of webhook_handler, in order of
                              \* arrival, each with the requests it has built and sent
    configs_seen              \* the values self.config has had while tasks were running

vars == <<config, expecting_first_admin_id, config_file, update, handled, api_calls, log,
          escaped, nupdates, text, modified_text, pc, returned, fault, tasks, configs_seen>>

botVars == <<config, expecting_first_admin_id, config_file, update, handled, api_calls,
             log, escaped, nupdates>>

applyVars == <<text, modified_text, pc, returned, fault>>

(***************************************************************************)
(* Python values that are not strings.                                     *)
(***************************************************************************)
\* None (a JSON null).  No string equals it: characters are one-character strings.
None == <<"None">>

\* A JSON number where the code expects a string (bot_config.json is not validated).
NotAString == <<"int">>

IsStr(v) == v # None /\ v # NotAString

\* A truth test that takes every value for true: not the test of line 118.
EverythingTruthy(v) == TRUE

\* Python truthiness of a string-or-None value: "" and None are falsy.
Truthy(v) == v # None /\ v # <<>>

(***************************************************************************)
(* Characters.                                                             *)
(***************************************************************************)
\* The upper-case ASCII letters and their lower-case forms.
UpperToLower ==
    [A |-> "a", B |-> "b", C |-> "c", D |-> "d", E |-> "e", F |-> "f", G |-> "g",
     H |-> "h", I |-> "i", J |-> "j", K |-> "k", L |-> "l", M |-> "m", N |-> "n",
     O |-> "o", P |-> "p", Q |-> "q", R |-> "r", S |-> "s", T |-> "t", U |-> "u",
     V |-> "v", W |-> "w", X |-> "x", Y |-> "y", Z |-> "z"]

Digits == {"0","1","2","3","4","5","6","7","8","9"}

OctDigits == {"0","1","2","3","4","5","6","7"}

AsciiLetters == DOMAIN UpperToLower \cup {UpperToLower[c] : c \in DOMAIN UpperToLower}

\* \w of an re pattern (ASCII part): letters, digits and the underscore.
IsWordChar(c) == c \in AsciiLetters \cup Digits \cup {"_"}

\* str.isspace for the whitespace that can occur in a message text.
IsSpace(c) == c \in {" ", "\t", "\n", "\r", "\f"}

\* str.lower
Lower(s) ==
    [i \in 1..Len(s) |-> IF s[i] \in DOMAIN UpperToLower THEN UpperToLower[s[i]] ELSE s[i]]

(***************************************************************************)
(* String helpers.                                                         *)
(***************************************************************************)
\* s[n:]
Drop(s, n) == IF n >= Len(s) THEN <<>> ELSE SubSeq(s, n + 1, Len(s))

\* s[:n]
Take(s, n) == IF n >= Len(s) THEN s ELSE SubSeq(s, 1, n)

\* str.startswith
StartsWith(s, p) == Len(p) <= Len(s) /\ SubSeq(s, 1, Len(p)) = p

\* `c in s` for a one-character c
HasChar(s, c) == \E i \in 1..Len(s) : s[i] = c

RECURSIVE LStripChar(_, _)
\* str.lstrip(c) for a one-character argument: every leading c is removed
LStripChar(s, c) ==
    IF s # <<>> /\ Head(s) = c THEN LStripChar(Tail(s), c) ELSE s

RECURSIVE LStrip(_)
\* str.lstrip()
LStrip(s) == IF s # <<>> /\ IsSpace(Head(s)) THEN LStrip(Tail(s)) ELSE s

RECURSIVE RStrip(_)
\* str.rstrip()
RStrip(s) ==
    IF s # <<>> /\ IsSpace(s[Len(s)]) THEN RStrip(SubSeq(s, 1, Len(s) - 1)) ELSE s

\* str.strip()
Strip(s) == RStrip(LStrip(s))

RECURSIVE Replace(_, _, _)
\* str.replace(old, new): every non-overlapping occurrence, left to right.  An empty
\* old matches before every character and at the end.
Replace(s, old, new) ==
    IF old = <<>>
    THEN IF s = <<>> THEN new ELSE new \o <<Head(s)>> \o Replace(Tail(s), old, new)
    ELSE IF Len(s) < Len(old) THEN s
    ELSE IF StartsWith(s, old) THEN new \o Replace(Drop(s, Len(old)), old, new)
    ELSE <<Head(s)>> \o Replace(Tail(s), old, new)

(***************************************************************************)
(* re.sub(r'\b' + re.escape(old) + r'\b', new, s, flags=re.IGNORECASE),    *)
(* the call of line 135.  The pattern has no groups.                       *)
(***************************************************************************)
\* ASCII 32..126, for the octal escapes of a replacement template.
AsciiPrintable ==
    <<" ","!","\"","#","$","%","&","'","(",")","*","+",",","-",".","/",
      "0","1","2","3","4","5","6","7","8","9",":",";","<","=",">","?",
      "@","A","B","C","D","E","F","G","H","I","J","K","L","M","N","O",
      "P","Q","R","S","T","U","V","W","X","Y","Z","[","\\","]","^","_",
      "chr(96)","a","b","c","d","e","f","g","h","i","j","k","l","m","n","o",
      "p","q","r","s","t","u","v","w","x","y","z","{","|","}","~">>

\* chr(n), 0 <= n <= 255; a character outside ASCII 32..126, and the backquote (which
\* a TLA+ string cannot hold), is written chr(n).
Chr(n) ==
    IF n >= 32 /\ n <= 126 THEN AsciiPrintable[n - 31]
    ELSE IF n = 9 THEN "\t" ELSE IF n = 10 THEN "\n"
    ELSE IF n = 12 THEN "\f" ELSE IF n = 13 THEN "\r"
    ELSE "chr(" \o ToString(n) \o ")"

\* The value of a decimal digit character.
DigitVal(c) == CHOOSE n \in 0..9 : Chr(48 + n) = c

\* re._parser.ESCAPES: the letters a template may escape, and \\.
EscapeLetters == {"a", "b", "f", "n", "r", "t", "v", "\\"}

EscapeChar(c) ==
    CASE c = "a" -> Chr(7) [] c = "b" -> Chr(8) [] c = "f" -> Chr(12)
      [] c = "n" -> Chr(10) [] c = "r" -> Chr(13) [] c = "t" -> Chr(9)
      [] c = "v" -> Chr(11) [] c = "\\" -> "\\"

\* The element of a parsed template that stands for the whole match (\g<0>).
Group0 == "\\g<0>"

BadTemplate == [ok |-> FALSE, parts |-> <<>>]

TemplateCons(pre, res) ==
    IF res.ok THEN [ok |-> TRUE, parts |-> pre \o res.parts] ELSE res

\* Index of the first c in s, 0 when there is none.
IndexOf(s, c) ==
    IF HasChar(s, c) THEN CHOOSE i \in 1..Len(s) : s[i] = c /\ \A j \in 1..(i - 1) : s[j] # c
    ELSE 0

RECURSIVE ParseTemplate(_)
\* re._parser.parse_template for a pattern without groups: the literal characters of
\* the replacement, Group0 where the whole match is inserted, or ok = FALSE where
\* Python raises (re.error, IndexError).  A group name is read as a decimal number;
\* any other name raises.
ParseTemplate(r) ==
    IF r = <<>> THEN [ok |-> TRUE, parts |-> <<>>]
    ELSE IF Head(r) # "\\" THEN TemplateCons(<<Head(r)>>, ParseTemplate(Tail(r)))
    ELSE IF Len(r) = 1 THEN BadTemplate                  \* bad escape (end of pattern)
    ELSE LET c == r[2]
             rest == Drop(r, 2)
         IN  IF c = "g" THEN
                 IF rest = <<>> \/ Head(rest) # "<" THEN BadTemplate      \* missing <
                 ELSE LET close == IndexOf(Tail(rest), ">")
                          name == Take(Tail(rest), close - 1)
                      IN  IF close <= 1 THEN BadTemplate   \* missing >, missing group name
                          ELSE IF \A i \in 1..Len(name) : name[i] = "0"
                          THEN TemplateCons(<<Group0>>, ParseTemplate(Drop(Tail(rest), close)))
                          ELSE BadTemplate    \* invalid group reference, unknown group name
             ELSE IF c = "0" THEN
                 LET n == IF rest # <<>> /\ rest[1] \in OctDigits
                          THEN IF Len(rest) >= 2 /\ rest[2] \in OctDigits THEN 2 ELSE 1
                          ELSE 0
                     v == IF n = 0 THEN 0
                          ELSE IF n = 1 THEN DigitVal(rest[1])
                          ELSE 8 * DigitVal(rest[1]) + DigitVal(rest[2])
                 IN  TemplateCons(<<Chr(v)>>, ParseTemplate(Drop(rest, n)))
             ELSE IF c \in Digits THEN
                 IF c \in OctDigits /\ Len(rest) >= 2
                    /\ rest[1] \in OctDigits /\ rest[2] \in OctDigits
                 THEN LET v == 64 * DigitVal(c) + 8 * DigitVal(rest[1]) + DigitVal(rest[2])
                      IN  IF v > 255 THEN BadTemplate       \* octal escape out of range
                          ELSE TemplateCons(<<Chr(v)>>, ParseTemplate(Drop(rest, 2)))
                 ELSE BadTemplate                           \* invalid group reference
             ELSE IF c \in EscapeLetters
                 THEN TemplateCons(<<EscapeChar(c)>>, ParseTemplate(rest))
             ELSE IF c \in AsciiLetters THEN BadTemplate    \* bad escape
             ELSE TemplateCons(<<"\\", c>>, ParseTemplate(rest))

RECURSIVE ExpandTemplate(_, _)
\* The replacement for one match m.
ExpandTemplate(parts, m) ==
    IF parts = <<>> THEN <<>>
    ELSE (IF Head(parts) = Group0 THEN m ELSE <<Head(parts)>>)
         \o ExpandTemplate(Tail(parts), m)

\* Is an optional character (<<>> or <<c>>) a word character?
IsWordAt(o) == o # <<>> /\ IsWordChar(o[1])

\* A pattern without the two \b of line 135.
NoWordBoundary(before, after) == TRUE

\* \b between two optional characters.
WordBoundary(before, after) == IsWordAt(before) # IsWordAt(after)

\* Does \b old \b match at the start of rest, case-insensitively, prev being the
\* character before it (<<>> at the start of the string)?  old is not empty.
WordMatchAt(prev, rest, old) ==
    /\ Len(rest) >= Len(old)
    /\ Lower(Take(rest, Len(old))) = Lower(old)
    /\ WordBoundary(prev, <<rest[1]>>)
    /\ WordBoundary(<<rest[Len(old)]>>, Take(Drop(rest, Len(old)), 1))

RECURSIVE SubScan(_, _, _, _)
\* The scan of re.sub: leftmost matches, left to right, not overlapping.  An empty old
\* gives the pattern \b\b, which matches the empty string at every word boundary.
SubScan(prev, rest, old, parts) ==
    IF old = <<>>
    THEN (IF WordBoundary(prev, Take(rest, 1)) THEN ExpandTemplate(parts, <<>>) ELSE <<>>)
         \o (IF rest = <<>> THEN <<>>
             ELSE <<Head(rest)>> \o SubScan(<<Head(rest)>>, Tail(rest), old, parts))
    ELSE IF rest = <<>> THEN <<>>
    ELSE IF WordMatchAt(prev, rest, old)
    THEN ExpandTemplate(parts, Take(rest, Len(old)))
         \o SubScan(<<rest[Len(old)]>>, Drop(rest, Len(old)), old, parts)
    ELSE <<Head(rest)>> \o SubScan(<<Head(rest)>>, Tail(rest), old, parts)

\* The call of line 135: [ok |-> TRUE, s |-> result], or ok = FALSE where it raises: a
\* replacement that is not a string (TypeError) or a template Python rejects.  The
\* template is compiled before the scan, so it raises whether or not old occurs.
SubWithTemplate(s, old, tpl) ==
    IF ~tpl.ok THEN [ok |-> FALSE, s |-> s]
    ELSE [ok |-> TRUE, s |-> SubScan(<<>>, s, old, tpl.parts)]

ReSubWord(s, old, new) ==
    IF ~IsStr(new) THEN [ok |-> FALSE, s |-> s]
    ELSE SubWithTemplate(s, old, ParseTemplate(new))

(***************************************************************************)
(* apply_replacements (lines 116-146).                                     *)
(***************************************************************************)
\* A rule category is a Python dict, iterated in insertion order: a sequence of
\* <<old, new>> pairs with distinct keys.
Key(rule) == rule[1]

Val(rule) == rule[2]

\* Index of the first rule of a non-empty rule list whose key is of maximal length.
FirstLongest(rules) ==
    CHOOSE i \in 1..Len(rules) :
        /\ \A j \in 1..Len(rules) : Len(Key(rules[j])) <= Len(Key(rules[i]))
        /\ \A j \in 1..(i - 1) : Len(Key(rules[j])) < Len(Key(rules[i]))

\* rules without its i-th element
RemoveAt(rules, i) == SubSeq(rules, 1, i - 1) \o SubSeq(rules, i + 1, Len(rules))

\* The rules as the dict iterates them, without the sorted() of lines 131 and 139.
InsertionOrder(rules) == rules

RECURSIVE SortedByKeyLen(_)
\* sorted(d.items(), key=lambda item: len(item[0]), reverse=True), lines 131 and 139:
\* longest key first; sorted() is stable, so keys of equal length keep insertion order.
SortedByKeyLen(rules) ==
    IF rules = <<>> THEN <<>>
    ELSE LET i == FirstLongest(rules)
         IN  <<rules[i]>> \o SortedByKeyLen(RemoveAt(rules, i))

\* A stage that would fold the letter case of what it hands on.
StageOkLowered(s) == [ok |-> TRUE, s |-> Lower(s)]

\* The outcome of a stage: the text so far, and whether the stage ran to its end
\* (ok) or raised at some rule.
StageOk(s) == [ok |-> TRUE, s |-> s]

StageRaised(s) == [ok |-> FALSE, s |-> s]

RECURSIVE ReplaceEach(_, _)
\* The loops of lines 125-126 and 140-141: str.replace for each rule in turn, on the
\* result of the previous one.  str.replace raises TypeError for a value that is not
\* a string.
ReplaceEach(s, rules) ==
    IF rules = <<>> THEN StageOk(s)
    ELSE IF ~IsStr(Val(Head(rules))) THEN StageRaised(s)
    ELSE ReplaceEach(Replace(s, Key(Head(rules)), Val(Head(rules))), Tail(rules))

RECURSIVE ReSubEach(_, _)
\* One turn of the loop of lines 132-135, r being what re.sub gave for the first rule.
ReSubNext(s, r, rules) ==
    IF ~r.ok THEN StageRaised(s) ELSE ReSubEach(r.s, Tail(rules))

\* The loop of lines 132-135: re.sub for each rule in turn.
ReSubEach(s, rules) ==
    IF rules = <<>> THEN StageOk(s)
    ELSE ReSubNext(s, ReSubWord(s, Key(Head(rules)), Val(Head(rules))), rules)

\* The link rules applied the way line 135 applies word rules.
LinkStageAsWords(s, repl) == ReSubEach(s, repl.links)

\* The sentence rules applied the way line 135 applies word rules.
SentenceStageAsWords(s, repl) == ReSubEach(s, SortedByKeyLen(repl.sentences))

\* Lines 125-126: link rules, in insertion order.
LinkStage(s, repl) == ReplaceEach(s, repl.links)

\* Lines 131-135: word rules, longest key first.
WordStage(s, repl) == ReSubEach(s, SortedByKeyLen(repl.words))

\* Lines 139-141: sentence rules, longest key first.
SentenceStage(s, repl) == ReplaceEach(s, SortedByKeyLen(repl.sentences))

RunStage(stage, s, repl) ==
    CASE stage = "links" -> LinkStage(s, repl)
      [] stage = "words" -> WordStage(s, repl)
      [] stage = "sentences" -> SentenceStage(s, repl)

\* The try block with its first two blocks exchanged: not the order of the source.
StageOrderWordsFirst == <<"words", "links", "sentences">>

\* The order of the three blocks inside the try of lines 123-141.
StageOrder == <<"links", "words", "sentences">>

\* An except clause that returned modified_text: not what line 144 returns.
ReturnModifiedOnError(original, modified) == modified

\* Line 144: what the except clause returns.
ReturnOnError(original, modified) == original

RECURSIVE RunStages(_, _, _)
\* The rest of the try block after a stage gave r: a stage that raised ends it.
RunRest(r, repl, stages) ==
    IF ~r.ok THEN r ELSE RunStages(r.s, repl, stages)

\* The try block from a given stage on.
RunStages(s, repl, stages) ==
    IF stages = <<>> THEN StageOk(s)
    ELSE RunRest(RunStage(Head(stages), s, repl), repl, Tail(stages))

\* Lines 142-146: the return value, r being what the try block gave.
ApplyReturn(t, r) == IF r.ok THEN r.s ELSE ReturnOnError(t, r.s)

\* apply_replacements as one call, the way forward_channel_message uses it.
apply_replacements(t, repl) ==
    IF ~Truthy(t) THEN t ELSE ApplyReturn(t, RunStages(t, repl, StageOrder))

(***************************************************************************)
(* The configuration.                                                      *)
(***************************************************************************)
NoRules == [links |-> <<>>, words |-> <<>>, sentences |-> <<>>]

\* BotConfig's defaults (lines 26-47), the configuration load_config returns when
\* there is no bot_config.json (line 89).
DefaultConfig ==
    [admin_users |-> <<>>,
     source_channels |-> <<>>,
     target_channel |-> <<>>,
     replacements |-> NoRules,
     forwarding_enabled |-> FALSE]

(***************************************************************************)
(* apply_replacements, stage by stage: the specification SpecApply calls   *)
(* it once on a text and a ruleset drawn from the sets below.              *)
(***************************************************************************)
ApplyTexts ==
    { <<>>, None,
      <<"V","i","s","i","t"," ","o","l","d",".","c","o","m"," ","n","o","w">>,
      <<"V","i","s","i","t"," ","O","L","D",".","c","o","m"," ","n","o","w">>,
      <<"T","h","e"," ","C","A","R","P","E","T"," ","i","s"," ","r","e","d">>,
      <<"a"," ","c","a","r">>,
      <<"h","e","l","l","o"," ","w","o","r","l","d">>,
      <<"G","o","o","d"," ","M","o","r","n","i","n","g"," ","t","e","a","m">>,
      <<"g","o","o","d"," ","m","o","r","n","i","n","g"," ","t","e","a","m">>,
      <<"n","e","w",".","c","o","m"," ","c","a","r">>,
      <<"H","i"," ","a">>,
      <<"C","A","R"," ","c","a","r","s">>,
      <<"c","o","l","d",".","c","o","m">> }

ApplyLinks ==
    { <<>>,
      <<<<<<"o","l","d",".","c","o","m">>, <<"n","e","w",".","c","o","m">>>>>>,
      <<<<<<"o","l","d",".","c","o","m">>, <<"c","a","r">>>>>>,
      <<<<<<"a">>, <<"b">>>>, <<<<"b">>, NotAString>>>> }

ApplyWords ==
    { <<>>,
      <<<<<<"c","a","r">>, <<"b","u","s">>>>>>,
      <<<<<<"h","e","l","l","o">>, <<"h","i">>>>, <<<<"h","e","l","l","o"," ","w","o","r","l","d">>, <<"g","r","e","e","t","i","n","g","s">>>>>>,
      <<<<<<"h","e","l","l","o"," ","w","o","r","l","d">>, <<"g","r","e","e","t","i","n","g","s">>>>, <<<<"h","e","l","l","o">>, <<"h","i">>>>>>,
      <<<<<<"c","a","r">>, <<"\\","1">>>>>>,
      <<<<<<"c","a","r">>, <<"G","o","o","d"," ","M","o","r","n","i","n","g">>>>>>,
      <<<<<<"n","e","w">>, <<"o","l","d">>>>>>,
      <<<<<<"c","a","r">>, <<"c","a","r","p","e","t">>>>>> }

ApplySentences ==
    { <<>>,
      <<<<<<"G","o","o","d"," ","M","o","r","n","i","n","g">>, <<"H","i">>>>>>,
      <<<<<<"a"," ","b","u","s">>, <<"X">>>>>>,
      <<<<<<"H","i">>, <<"c","a","r">>>>>>,
      <<<<<<"H","i">>, NotAString>>>>,
      <<<<<<"h","e","l","l","o">>, <<"h","i">>>>, <<<<"h","e","l","l","o"," ","w","o","r","l","d">>, <<"g","r","e","e","t","i","n","g","s">>>>>>,
      <<<<<<"h","e","l","l","o"," ","w","o","r","l","d">>, <<"g","r","e","e","t","i","n","g","s">>>>, <<<<"h","e","l","l","o">>, <<"h","i">>>>>> }

ApplyRulesets ==
    { [links |-> l, words |-> w, sentences |-> st] :
        l \in ApplyLinks, w \in ApplyWords, st \in ApplySentences }

\* The stage that follows a stage inside the try block, "return" after the last.
StageAfter(stage) ==
    LET i == CHOOSE k \in 1..Len(StageOrder) : StageOrder[k] = stage
    IN  IF i = Len(StageOrder) THEN "return" ELSE StageOrder[i + 1]

\* The bot is idle while SpecApply runs: no update has been processed.
NoUpdate == [kind |-> "none"]

BotIdle ==
    /\ expecting_first_admin_id = <<>>
    /\ config_file = <<>>
    /\ update = NoUpdate
    /\ handled = <<>>
    /\ api_calls = <<>>
    /\ log = <<>>
    /\ escaped = <<>>
    /\ nupdates = 0
    /\ tasks = <<>>
    /\ configs_seen = {}

ApplyInit ==
    /\ config \in { [DefaultConfig EXCEPT !.replacements = r] : r \in ApplyRulesets }
    /\ text \in ApplyTexts
    /\ modified_text = <<>>
    /\ pc = "call"
    /\ returned = <<>>
    /\ fault = <<>>
    /\ BotIdle

\* Lines 118-121: an empty or absent text is returned as it is, before any rule is
\* read; otherwise modified_text starts as the text.
ApplyEnter ==
    /\ pc = "call"
    /\ IF ~Truthy(text)
       THEN /\ returned' = <<text>>
            /\ pc' = "done"
            /\ UNCHANGED modified_text
       ELSE /\ modified_text' = text
            /\ pc' = Head(StageOrder)
            /\ UNCHANGED returned
    /\ UNCHANGED <<text, fault, botVars, tasks, configs_seen>>

\* One stage of the try block (lines 123-141) and, when it raises, the except clause
\* (lines 142-144); after the last stage, the return of line 146.
ApplyStage(stage) ==
    /\ pc = stage
    /\ LET r == RunStage(stage, modified_text, config.replacements)
       IN  /\ modified_text' = r.s
           /\ IF ~r.ok
              THEN /\ fault' = <<"Exception">>
                   /\ returned' = <<ReturnOnError(text, r.s)>>
                   /\ pc' = "done"
              ELSE /\ fault' = fault
                   /\ IF StageAfter(stage) = "return"
                      THEN returned' = <<r.s>> /\ pc' = "done"
                      ELSE returned' = returned /\ pc' = StageAfter(stage)
    /\ UNCHANGED <<text, botVars, tasks, configs_seen>>

ApplyLinkRules == ApplyStage("links")

ApplyWordRules == ApplyStage("words")

ApplySentenceRules == ApplyStage("sentences")

ApplyNext ==
    \/ ApplyEnter
    \/ ApplyLinkRules
    \/ ApplyWordRules
    \/ ApplySentenceRules

SpecApply == ApplyInit /\ [][ApplyNext]_vars

(***************************************************************************)
(* More of Python's built-ins, for the handlers.                           *)
(***************************************************************************)
RECURSIVE NatToStr(_)
NatToStr(n) ==
    IF n < 10 THEN <<Chr(48 + n)>> ELSE NatToStr(n \div 10) \o <<Chr(48 + (n % 10))>>

\* str(n) for an int
IntToStr(n) == IF n < 0 THEN <<"-">> \o NatToStr(0 - n) ELSE NatToStr(n)

RECURSIVE DigitsVal(_)
\* The number a run of digits and underscores denotes.
DigitsVal(s) ==
    IF s = <<>> THEN 0
    ELSE IF s[Len(s)] = "_" THEN DigitsVal(SubSeq(s, 1, Len(s) - 1))
    ELSE 10 * DigitsVal(SubSeq(s, 1, Len(s) - 1)) + DigitVal(s[Len(s)])

\* int(s): [ok |-> TRUE, v |-> n], or ok = FALSE where int raises ValueError.
\* Surrounding whitespace, one sign and single underscores between digits are
\* accepted, as Python does.
PyInt(s) ==
    LET t == Strip(s)
        signed == t # <<>> /\ t[1] \in {"+", "-"}
        body == IF signed THEN Tail(t) ELSE t
        valid == /\ body # <<>>
                 /\ \A i \in 1..Len(body) : body[i] \in Digits \cup {"_"}
                 /\ body[1] \in Digits
                 /\ body[Len(body)] \in Digits
                 /\ \A i \in 1..(Len(body) - 1) : ~(body[i] = "_" /\ body[i + 1] = "_")
    IN  IF ~valid THEN [ok |-> FALSE, v |-> 0]
        ELSE [ok |-> TRUE,
              v |-> IF signed /\ t[1] = "-" THEN 0 - DigitsVal(body) ELSE DigitsVal(body)]

\* Index of the first whitespace character of s, 0 when there is none.
FirstSpace(s) ==
    IF \E i \in 1..Len(s) : IsSpace(s[i])
    THEN CHOOSE i \in 1..Len(s) : IsSpace(s[i]) /\ \A j \in 1..(i - 1) : ~IsSpace(s[j])
    ELSE 0

\* s.split(None, 1): the first word and, if anything but whitespace follows it, the
\* rest with its leading whitespace removed.
Split1(s) ==
    LET t == LStrip(s)
        i == FirstSpace(t)
    IN  IF t = <<>> THEN <<>>
        ELSE IF i = 0 THEN <<t>>
        ELSE IF LStrip(Drop(t, i)) = <<>> THEN <<Take(t, i - 1)>>
        ELSE <<Take(t, i - 1), LStrip(Drop(t, i))>>

RECURSIVE Split(_)
\* s.split(): the words of s.
Split(s) ==
    LET t == LStrip(s)
        i == FirstSpace(t)
    IN  IF t = <<>> THEN <<>>
        ELSE IF i = 0 THEN <<t>>
        ELSE <<Take(t, i - 1)>> \o Split(Drop(t, i))

\* s.split('|', 1) for an s that contains '|'.
SplitBar(s) ==
    LET i == IndexOf(s, "|") IN <<Take(s, i - 1), Drop(s, i)>>

\* x in list
InList(list, x) == \E i \in 1..Len(list) : list[i] = x

\* list.remove(x) for an x that is in the list: the first occurrence goes.
ListRemove(list, x) ==
    RemoveAt(list, CHOOSE i \in 1..Len(list) : list[i] = x /\ \A j \in 1..(i - 1) : list[j] # x)

\* key in d, d[key], d[key] = value, del d[key] for an insertion-ordered dict.
DictHas(d, k) == \E i \in 1..Len(d) : Key(d[i]) = k

\* A d[key] = value that always appends, as on a list of pairs.
DictAppend(d, k, v) == Append(d, <<k, v>>)

DictSet(d, k, v) ==
    IF DictHas(d, k)
    THEN [i \in 1..Len(d) |-> IF Key(d[i]) = k THEN <<k, v>> ELSE d[i]]
    ELSE Append(d, <<k, v>>)

DictDel(d, k) == RemoveAt(d, CHOOSE i \in 1..Len(d) : Key(d[i]) = k)

\* A post.get that never finds a photo: the first branch of line 357 is never taken.
GetWithoutPhoto(d, k, default) == IF k \in DOMAIN d /\ k # "photo" THEN d[k] ELSE default

\* dict.get(key, default) on a dict modelled as a function
Get(d, k, default) == IF k \in DOMAIN d THEN d[k] ELSE default

\* Truthiness of a dict or a list: not empty.
NonEmpty(c) == DOMAIN c # {}

(***************************************************************************)
(* The Bot API requests (lines 148-252).  _send_api_request catches every  *)
(* exception and returns a dict, so a request never raises into its        *)
(* caller; the handlers below ignore what it returns.                      *)
(***************************************************************************)
\* send_message (lines 175-185).  A reply of the bot to a user carries, as its text,
\* one opaque element naming the reply.
send_message(chat_id, txt) ==
    [method |-> "sendMessage",
     payload |-> [chat_id |-> chat_id, text |-> txt, parse_mode |-> "HTML"]]

\* send_message with an inline keyboard (lines 182-183)
send_menu(chat_id, txt, keyboard) ==
    [method |-> "sendMessage",
     payload |-> [chat_id |-> chat_id, text |-> txt, parse_mode |-> "HTML",
                  reply_markup |-> keyboard]]

\* answer_callback_query (lines 187-197)
answer_callback_query(callback_query_id, txt, show_alert) ==
    [method |-> "answerCallbackQuery",
     payload |-> [callback_query_id |-> callback_query_id]
                 @@ (IF Truthy(txt) THEN [text |-> txt] ELSE <<>>)
                 @@ (IF show_alert THEN [show_alert |-> TRUE] ELSE <<>>)]

\* A copy_message that drops the caption it is given.
CopyWithoutCaption(from_chat_id, to_chat_id, message_id, caption) ==
    [method |-> "copyMessage",
     payload |-> [chat_id |-> to_chat_id, from_chat_id |-> from_chat_id,
                  message_id |-> message_id]]

\* copy_message (lines 208-219): the caption and the parse mode are sent only for a
\* caption that is not None.
copy_message(from_chat_id, to_chat_id, message_id, caption) ==
    [method |-> "copyMessage",
     payload |-> [chat_id |-> to_chat_id, from_chat_id |-> from_chat_id,
                  message_id |-> message_id]
                 @@ (IF caption # None
                     THEN [caption |-> caption, parse_mode |-> "HTML"] ELSE <<>>)]

\* send_photo (lines 221-230)
send_photo(chat_id, photo, caption) ==
    [method |-> "sendPhoto",
     payload |-> [chat_id |-> chat_id, photo |-> photo]
                 @@ (IF caption # None
                     THEN [caption |-> caption, parse_mode |-> "HTML"] ELSE <<>>)]

\* send_document (lines 232-241)
send_document(chat_id, document, caption) ==
    [method |-> "sendDocument",
     payload |-> [chat_id |-> chat_id, document |-> document]
                 @@ (IF caption # None
                     THEN [caption |-> caption, parse_mode |-> "HTML"] ELSE <<>>)]

\* A send_video that would go through the document primitive.
SendVideoAsDocument(chat_id, video, caption) ==
    [method |-> "sendDocument",
     payload |-> [chat_id |-> chat_id, document |-> video]
                 @@ (IF caption # None
                     THEN [caption |-> caption, parse_mode |-> "HTML"] ELSE <<>>)]

\* send_video (lines 243-252)
send_video(chat_id, video, caption) ==
    [method |-> "sendVideo",
     payload |-> [chat_id |-> chat_id, video |-> video]
                 @@ (IF caption # None
                     THEN [caption |-> caption, parse_mode |-> "HTML"] ELSE <<>>)]

(***************************************************************************)
(* The forwarding pipeline (lines 303-397).                                *)
(*                                                                         *)
(* A post is the decoded JSON object of the update: a function from the    *)
(* keys present to their values.  post.chat.id and post.message_id are     *)
(* ints; username, text and caption are strings (or None for a JSON null); *)
(* photo is a list of size variants, video / document / animation are      *)
(* objects, each with or without a file_id.                                *)
(***************************************************************************)
\* What running a piece of a handler gives: the requests it issued, what it logged,
\* and <<>> or the <<exception>> it raised.
Ran(calls, logs, exc) == [calls |-> calls, logs |-> logs, exc |-> exc]

RECURSIVE MatchSources(_, _, _)
\* The loop of lines 318-324 over the source list: "match" at the first entry that
\* equals the id or, case-insensitively, the username; "nomatch" at the end of the
\* list; "AttributeError" where channel_username.lower() is reached with a username
\* of None (the id comparison comes first and short-circuits the `or`).
MatchSources(sources, channel_id, channel_username) ==
    IF sources = <<>> THEN "nomatch"
    ELSE LET normalized_source == LStripChar(Head(sources), "@")
         IN  IF channel_id = normalized_source THEN "match"
             ELSE IF channel_username = None THEN "AttributeError"
             ELSE IF Lower(channel_username) = Lower(normalized_source) THEN "match"
             ELSE MatchSources(Tail(sources), channel_id, channel_username)

\* Lines 313-324 for a post that has a chat with an id.
is_source_channel(sources, channel_id, channel_username) ==
    MatchSources(sources, channel_id, channel_username)

\* post[key]["file_id"] for a media object, lines 365, 372, 379
HasFileId(media) == "file_id" \in DOMAIN media

\* A relay that re-sends whether or not anything was modified: not the tests of the
\* source.
RelayCaptionAlways(modified) == TRUE

\* Lines 359, 366, 373, 380, 386: re-send only if the caption (the text) was modified.
ResendIf(modified) == modified

\* The requests forward_channel_message awaits, one after the other.
Issue(calls) == calls

\* post[key][0]: the smallest variant, not the element line 358 takes.
Smallest(photo) == photo[1]

\* post[key][-1] of line 358
Largest(photo) == photo[Len(photo)]

\* Lines 357-397 of forward_channel_message: the branch for the post's media kind and
\* the one request it awaits.  A KeyError (a media object without file_id) leaves
\* the function before any request is issued.
Relay(post, cfg, new_text, new_caption, text_modified, caption_modified) ==
    LET message_id == post.message_id
        from_chat_id == IntToStr(post.chat.id)
        to_chat_id == cfg.target_channel
        original_caption == Get(post, "caption", <<>>)
    IN
    IF NonEmpty(Get(post, "photo", <<>>)) THEN
        IF ~HasFileId(Largest(post.photo)) THEN Ran(<<>>, <<>>, <<"KeyError">>)
        ELSE IF ResendIf(caption_modified)
        THEN Ran(Issue(<<send_photo(to_chat_id, Largest(post.photo).file_id, new_caption)>>),
                 <<>>, <<>>)
        ELSE Ran(Issue(<<copy_message(from_chat_id, to_chat_id, message_id, None)>>),
                 <<>>, <<>>)
    ELSE IF NonEmpty(Get(post, "video", <<>>)) THEN
        IF ~HasFileId(post.video) THEN Ran(<<>>, <<>>, <<"KeyError">>)
        ELSE IF ResendIf(caption_modified)
        THEN Ran(Issue(<<send_video(to_chat_id, post.video.file_id, new_caption)>>),
                 <<>>, <<>>)
        ELSE Ran(Issue(<<copy_message(from_chat_id, to_chat_id, message_id, None)>>),
                 <<>>, <<>>)
    ELSE IF NonEmpty(Get(post, "document", <<>>)) THEN
        IF ~HasFileId(post.document) THEN Ran(<<>>, <<>>, <<"KeyError">>)
        ELSE IF ResendIf(caption_modified)
        THEN Ran(Issue(<<send_document(to_chat_id, post.document.file_id, new_caption)>>),
                 <<>>, <<>>)
        ELSE Ran(Issue(<<copy_message(from_chat_id, to_chat_id, message_id, None)>>),
                 <<>>, <<>>)
    ELSE IF NonEmpty(Get(post, "animation", <<>>)) THEN
        IF ~HasFileId(post.animation) THEN Ran(<<>>, <<>>, <<"KeyError">>)
        ELSE IF ResendIf(caption_modified)
        THEN Ran(Issue(<<send_document(to_chat_id, post.animation.file_id, new_caption)>>),
                 <<>>, <<>>)
        ELSE Ran(Issue(<<copy_message(from_chat_id, to_chat_id, message_id, None)>>),
                 <<>>, <<>>)
    ELSE IF Truthy(Get(post, "text", None)) THEN
        IF ResendIf(text_modified)
        THEN Ran(Issue(<<send_message(to_chat_id, new_text)>>), <<>>, <<>>)
        ELSE Ran(Issue(<<copy_message(from_chat_id, to_chat_id, message_id, None)>>),
                 <<>>, <<>>)
    ELSE
        IF Truthy(original_caption) /\ caption_modified
        THEN Ran(Issue(<<copy_message(from_chat_id, to_chat_id, message_id, new_caption)>>),
                 <<>>, <<>>)
        ELSE Ran(Issue(<<copy_message(from_chat_id, to_chat_id, message_id, None)>>),
                 <<>>, <<>>)

\* A comparison that looks at the caption only.
CompareCaptionOnly(post, cfg, new_text, new_caption) ==
    Relay(post, cfg, new_text, new_caption,
          new_caption # Get(post, "caption", <<>>), new_caption # Get(post, "caption", <<>>))

\* Lines 349-351: was the text, was the caption modified?
Compare(post, cfg, new_text, new_caption) ==
    Relay(post, cfg, new_text, new_caption,
          new_text # Get(post, "text", <<>>), new_caption # Get(post, "caption", <<>>))

\* forward_channel_message (lines 336-397).  A missing message_id is a KeyError at
\* line 338; otherwise the replacements are applied to the text and to the caption
\* (lines 341-347) and the post is relayed.
forward_channel_message(post, cfg) ==
    IF "message_id" \notin DOMAIN post THEN Ran(<<>>, <<>>, <<"KeyError">>)
    ELSE Compare(post, cfg,
                 apply_replacements(Get(post, "text", <<>>), cfg.replacements),
                 apply_replacements(Get(post, "caption", <<>>), cfg.replacements))

\* A handler without the check of line 305.
EnabledCheckSkipped(cfg) == TRUE

\* Line 305
ForwardingOn(cfg) == cfg.forwarding_enabled

\* Line 309
TargetSet(cfg) == Truthy(cfg.target_channel)

\* Lines 326-334: a post that is not from a source is dropped; whatever
\* forward_channel_message raises is caught and logged at lines 333-334.  An
\* AttributeError of line 322 is raised outside the try and leaves the handler.
AfterMatch(found, fwd) ==
    IF found = "AttributeError" THEN Ran(<<>>, <<>>, <<"AttributeError">>)
    ELSE IF found = "nomatch" THEN Ran(<<>>, <<"not a configured source channel">>, <<>>)
    ELSE IF fwd.exc # <<>> THEN Ran(fwd.calls, <<"Error forwarding channel message">>, <<>>)
    ELSE Ran(fwd.calls, <<"Forwarded message">>, <<>>)

\* The body of handle_channel_post (lines 303-334).  The two configuration checks come
\* before the post is looked at; a KeyError of line 313 (no chat, no id) is raised
\* outside the try of line 330 and leaves the handler.
RunChannelPost(post, cfg) ==
    IF ~ForwardingOn(cfg) THEN Ran(<<>>, <<"Forwarding disabled">>, <<>>)
    ELSE IF ~TargetSet(cfg) THEN Ran(<<>>, <<"Target channel not set">>, <<>>)
    ELSE IF "chat" \notin DOMAIN post \/ "id" \notin DOMAIN post.chat
    THEN Ran(<<>>, <<>>, <<"KeyError">>)
    ELSE AfterMatch(is_source_channel(cfg.source_channels, IntToStr(post.chat.id),
                                      Get(post.chat, "username", <<>>)),
                    forward_channel_message(post, cfg))

(***************************************************************************)
(* The command handlers (lines 486-994).  Each gives the configuration it  *)
(* leaves, the requests it issued and whether it called save_config.       *)
(* A reply's text is one opaque element naming the reply.                  *)
(***************************************************************************)
Done(cfg, calls, saved) == [config |-> cfg, calls |-> calls, saved |-> saved]

\* An is_admin that lets everybody in.
EverybodyAdmin(cfg, user_id) == TRUE

\* is_admin (lines 112-114)
is_admin(cfg, user_id) == InList(cfg.admin_users, user_id)

\* cmd_start, cmd_status, cmd_help (lines 486-526, 612-660): a reply, nothing else.
cmd_start(cfg, chat_id) == Done(cfg, <<send_message(chat_id, <<"welcome">>)>>, FALSE)

cmd_status(cfg, chat_id) == Done(cfg, <<send_message(chat_id, <<"status">>)>>, FALSE)

cmd_help(cfg, chat_id) == Done(cfg, <<send_message(chat_id, <<"help">>)>>, FALSE)

\* cmd_admin, cmd_channels, cmd_replacements (lines 528-548, 577-588): a menu.
cmd_admin(cfg, chat_id) ==
    Done(cfg, <<send_menu(chat_id, <<"Admin Management">>, "admin")>>, FALSE)

cmd_channels(cfg, chat_id) ==
    Done(cfg, <<send_menu(chat_id, <<"Source Channels Management">>, "channels")>>, FALSE)

cmd_replacements(cfg, chat_id) ==
    Done(cfg, <<send_menu(chat_id, <<"Text Replacements Management">>, "replacements")>>,
         FALSE)

\* cmd_target (lines 550-575): the keyboard only when a target is set.
cmd_target(cfg, chat_id) ==
    IF Truthy(cfg.target_channel)
    THEN Done(cfg, <<send_menu(chat_id, <<"Target Channel Management">>, "clear_target")>>,
              FALSE)
    ELSE Done(cfg, <<send_message(chat_id, <<"Target Channel Management">>)>>, FALSE)

\* A cmd_start_forwarding without the test of line 596.
StartForwardingAnySources(cfg, chat_id) ==
    IF ~Truthy(cfg.target_channel)
    THEN Done(cfg, <<send_message(chat_id, <<"Target channel not set">>)>>, FALSE)
    ELSE Done([cfg EXCEPT !.forwarding_enabled = TRUE],
              <<send_message(chat_id, <<"Forwarding started">>)>>, TRUE)

\* cmd_start_forwarding (lines 590-603)
cmd_start_forwarding(cfg, chat_id) ==
    IF ~Truthy(cfg.target_channel)
    THEN Done(cfg, <<send_message(chat_id, <<"Target channel not set">>)>>, FALSE)
    ELSE IF cfg.source_channels = <<>>
    THEN Done(cfg, <<send_message(chat_id, <<"No source channels added">>)>>, FALSE)
    ELSE Done([cfg EXCEPT !.forwarding_enabled = TRUE],
              <<send_message(chat_id, <<"Forwarding started">>)>>, TRUE)

\* cmd_stop_forwarding (lines 605-610)
cmd_stop_forwarding(cfg, chat_id) ==
    Done([cfg EXCEPT !.forwarding_enabled = FALSE],
         <<send_message(chat_id, <<"Forwarding stopped">>)>>, TRUE)

\* cmd_add_admin (lines 663-683)
cmd_add_admin(cfg, chat_id, user_id, txt) ==
    LET parts == Split(txt)
        new_admin_id == PyInt(parts[2])
    IN  IF Len(parts) # 2
        THEN Done(cfg, <<send_message(chat_id, <<"Usage: /add_admin">>)>>, FALSE)
        ELSE IF ~new_admin_id.ok
        THEN Done(cfg, <<send_message(chat_id, <<"Invalid user ID">>)>>, FALSE)
        ELSE IF ~InList(cfg.admin_users, new_admin_id.v)
        THEN Done([cfg EXCEPT !.admin_users = Append(@, new_admin_id.v)],
                  <<send_message(chat_id, <<"Added admin">>)>>, TRUE)
        ELSE Done(cfg, <<send_message(chat_id, <<"already an admin">>)>>, FALSE)

\* A cmd_remove_admin without the test of line 694.
RemoveAdminAlsoSelf(cfg, chat_id, user_id, txt) ==
    LET parts == Split(txt)
        admin_to_remove == PyInt(parts[2])
    IN  IF Len(parts) # 2
        THEN Done(cfg, <<send_message(chat_id, <<"Usage: /remove_admin">>)>>, FALSE)
        ELSE IF ~admin_to_remove.ok
        THEN Done(cfg, <<send_message(chat_id, <<"Invalid user ID">>)>>, FALSE)
        ELSE IF InList(cfg.admin_users, admin_to_remove.v)
        THEN Done([cfg EXCEPT !.admin_users = ListRemove(@, admin_to_remove.v)],
                  <<send_message(chat_id, <<"Removed admin">>)>>, TRUE)
        ELSE Done(cfg, <<send_message(chat_id, <<"is not an admin">>)>>, FALSE)

\* cmd_remove_admin (lines 685-709)
cmd_remove_admin(cfg, chat_id, user_id, txt) ==
    LET parts == Split(txt)
        admin_to_remove == PyInt(parts[2])
    IN  IF Len(parts) # 2
        THEN Done(cfg, <<send_message(chat_id, <<"Usage: /remove_admin">>)>>, FALSE)
        ELSE IF ~admin_to_remove.ok
        THEN Done(cfg, <<send_message(chat_id, <<"Invalid user ID">>)>>, FALSE)
        ELSE IF admin_to_remove.v = user_id
        THEN Done(cfg, <<send_message(chat_id, <<"You cannot remove yourself">>)>>, FALSE)
        ELSE IF InList(cfg.admin_users, admin_to_remove.v)
        THEN Done([cfg EXCEPT !.admin_users = ListRemove(@, admin_to_remove.v)],
                  <<send_message(chat_id, <<"Removed admin">>)>>, TRUE)
        ELSE Done(cfg, <<send_message(chat_id, <<"is not an admin">>)>>, FALSE)

\* Lines 721-722, 744-745, 775-776: one leading '@' is removed.
DropSigil(s) == IF StartsWith(s, <<"@">>) THEN Tail(s) ELSE s

\* cmd_add_channel (lines 711-733)
cmd_add_channel(cfg, chat_id, user_id, txt) ==
    LET parts == Split1(txt)
        channel == DropSigil(Strip(parts[2]))
        stored == [i \in 1..Len(cfg.source_channels) |->
                       LStripChar(cfg.source_channels[i], "@")]
    IN  IF Len(parts) # 2
        THEN Done(cfg, <<send_message(chat_id, <<"Usage: /add_channel">>)>>, FALSE)
        ELSE IF ~InList(stored, channel)
        THEN Done([cfg EXCEPT !.source_channels = Append(@, channel)],
                  <<send_message(chat_id, <<"Added source channel">>)>>, TRUE)
        ELSE Done(cfg, <<send_message(chat_id, <<"already added">>)>>, FALSE)

\* cmd_remove_channel (lines 735-763): the first entry that equals the argument,
\* sigils stripped and letter case ignored, is removed - unless that entry is the
\* empty string, which `if found_channel:` takes for not found.
cmd_remove_channel(cfg, chat_id, user_id, txt) ==
    LET parts == Split1(txt)
        channel_to_remove == DropSigil(Strip(parts[2]))
        hits == {i \in 1..Len(cfg.source_channels) :
                    Lower(LStripChar(cfg.source_channels[i], "@")) = Lower(channel_to_remove)}
        found_channel == IF hits = {} THEN None
                         ELSE cfg.source_channels[CHOOSE i \in hits : \A j \in hits : i <= j]
    IN  IF Len(parts) # 2
        THEN Done(cfg, <<send_message(chat_id, <<"Usage: /remove_channel">>)>>, FALSE)
        ELSE IF Truthy(found_channel)
        THEN Done([cfg EXCEPT !.source_channels = ListRemove(@, found_channel)],
                  <<send_message(chat_id, <<"Removed source channel">>)>>, TRUE)
        ELSE Done(cfg, <<send_message(chat_id, <<"not found in source channels">>)>>, FALSE)

\* cmd_set_target (lines 765-789)
cmd_set_target(cfg, chat_id, user_id, txt) ==
    LET parts == Split1(txt)
        target == DropSigil(Strip(parts[2]))
    IN  IF Len(parts) # 2
        THEN Done(cfg, <<send_message(chat_id, <<"Usage: /set_target">>)>>, FALSE)
        ELSE IF cfg.target_channel = target
        THEN Done(cfg, <<send_message(chat_id, <<"Target channel is already set">>)>>, FALSE)
        ELSE Done([cfg EXCEPT !.target_channel = target],
                  <<send_message(chat_id, <<"Target channel set">>)>>, TRUE)

\* A cmd_clear_target without lines 801-803: forwarding is left as it was.
ClearTargetOnly(cfg, chat_id, user_id) ==
    IF ~Truthy(cfg.target_channel)
    THEN Done(cfg, <<send_message(chat_id, <<"No target channel is currently set">>)>>, FALSE)
    ELSE Done([cfg EXCEPT !.target_channel = <<>>],
              <<send_message(chat_id, <<"Target channel cleared">>)>>, TRUE)

\* cmd_clear_target (lines 791-807)
cmd_clear_target(cfg, chat_id, user_id) ==
    IF ~Truthy(cfg.target_channel)
    THEN Done(cfg, <<send_message(chat_id, <<"No target channel is currently set">>)>>, FALSE)
    ELSE IF cfg.forwarding_enabled
    THEN Done([cfg EXCEPT !.target_channel = <<>>, !.forwarding_enabled = FALSE],
              <<send_message(chat_id, <<"Forwarding automatically stopped">>),
                send_message(chat_id, <<"Target channel cleared">>)>>, TRUE)
    ELSE Done([cfg EXCEPT !.target_channel = <<>>],
              <<send_message(chat_id, <<"Target channel cleared">>)>>, TRUE)

\* An add handler without the test of lines 821, 867, 913: empty halves are stored.
AddRuleUnchecked(kind, cfg, chat_id, user_id, txt) ==
    LET parts == Split1(txt)
        halves == SplitBar(parts[2])
        old == Strip(halves[1])
        new == Strip(halves[2])
    IN  IF Len(parts) # 2 \/ ~HasChar(parts[2], "|")
        THEN Done(cfg, <<send_message(chat_id, <<"Usage: /add_", kind>>)>>, FALSE)
        ELSE Done([cfg EXCEPT !.replacements[kind] = DictSet(@, old, new)],
                  <<send_message(chat_id, <<"Added replacement", kind>>)>>, TRUE)

\* cmd_add_link, cmd_add_word, cmd_add_sentence (lines 809-831, 855-877, 901-923):
\* the same body for the category `kind`.
cmd_add_rule(kind, cfg, chat_id, user_id, txt) ==
    LET parts == Split1(txt)
        halves == SplitBar(parts[2])
        old == Strip(halves[1])
        new == Strip(halves[2])
    IN  IF Len(parts) # 2 \/ ~HasChar(parts[2], "|")
        THEN Done(cfg, <<send_message(chat_id, <<"Usage: /add_", kind>>)>>, FALSE)
        ELSE IF old = <<>> \/ new = <<>>
        THEN Done(cfg, <<send_message(chat_id, <<"Both must be provided">>)>>, FALSE)
        ELSE Done([cfg EXCEPT !.replacements[kind] = DictSet(@, old, new)],
                  <<send_message(chat_id, <<"Added replacement", kind>>)>>, TRUE)

cmd_add_link(cfg, chat_id, user_id, txt) == cmd_add_rule("links", cfg, chat_id, user_id, txt)

cmd_add_word(cfg, chat_id, user_id, txt) == cmd_add_rule("words", cfg, chat_id, user_id, txt)

cmd_add_sentence(cfg, chat_id, user_id, txt) ==
    cmd_add_rule("sentences", cfg, chat_id, user_id, txt)

\* cmd_remove_link, cmd_remove_word, cmd_remove_sentence (lines 833-853, 879-899,
\* 925-945): the same body for the category `kind`.
cmd_remove_rule(kind, cfg, chat_id, user_id, txt) ==
    LET parts == Split1(txt)
        old == Strip(parts[2])
    IN  IF Len(parts) # 2
        THEN Done(cfg, <<send_message(chat_id, <<"Usage: /remove_", kind>>)>>, FALSE)
        ELSE IF DictHas(cfg.replacements[kind], old)
        THEN Done([cfg EXCEPT !.replacements[kind] = DictDel(@, old)],
                  <<send_message(chat_id, <<"Removed replacement", kind>>)>>, TRUE)
        ELSE Done(cfg, <<send_message(chat_id, <<"Replacement not found", kind>>)>>, FALSE)

cmd_remove_link(cfg, chat_id, user_id, txt) ==
    cmd_remove_rule("links", cfg, chat_id, user_id, txt)

cmd_remove_word(cfg, chat_id, user_id, txt) ==
    cmd_remove_rule("words", cfg, chat_id, user_id, txt)

cmd_remove_sentence(cfg, chat_id, user_id, txt) ==
    cmd_remove_rule("sentences", cfg, chat_id, user_id, txt)

\* The category names of line 979, as Python strings.
CategoryNames ==
    [links |-> <<"l","i","n","k","s">>, words |-> <<"w","o","r","d","s">>, sentences |-> <<"s","e","n","t","e","n","c","e","s">>]

\* cmd_clear_replacements (lines 947-994)
cmd_clear_replacements(cfg, chat_id, user_id, txt) ==
    LET parts == Split(txt)
        replacement_type == Lower(parts[2])
        r == cfg.replacements
        total_count == Len(r.links) + Len(r.words) + Len(r.sentences)
        kinds == {k \in DOMAIN CategoryNames : CategoryNames[k] = replacement_type}
        kind == CHOOSE k \in kinds : TRUE
    IN  IF Len(parts) = 1
        THEN Done(cfg, <<send_message(chat_id, <<"Usage: /clear_replacements">>)>>, FALSE)
        ELSE IF replacement_type = <<"a","l","l">>
        THEN IF total_count = 0
             THEN Done(cfg, <<send_message(chat_id, <<"No replacements to clear">>)>>, FALSE)
             ELSE Done([cfg EXCEPT !.replacements = NoRules],
                       <<send_message(chat_id, <<"Cleared all replacements">>)>>, TRUE)
        ELSE IF kinds # {}
        THEN IF Len(r[kind]) = 0
             THEN Done(cfg, <<send_message(chat_id, <<"No replacements to clear", kind>>)>>,
                       FALSE)
             ELSE Done([cfg EXCEPT !.replacements[kind] = <<>>],
                       <<send_message(chat_id, <<"Cleared replacements", kind>>)>>, TRUE)
        ELSE Done(cfg, <<send_message(chat_id, <<"Invalid type">>)>>, FALSE)

(***************************************************************************)
(* handle_message (lines 399-484).                                         *)
(***************************************************************************)
\* The elif chain of lines 424-465, in its order: the prefix tested by startswith
\* and the handler called.
CommandRoutes ==
    << <<<<"/","s","t","a","t","u","s">>, "cmd_status">>,
       <<<<"/","a","d","m","i","n">>, "cmd_admin">>,
       <<<<"/","c","h","a","n","n","e","l","s">>, "cmd_channels">>,
       <<<<"/","t","a","r","g","e","t">>, "cmd_target">>,
       <<<<"/","r","e","p","l","a","c","e","m","e","n","t","s">>, "cmd_replacements">>,
       <<<<"/","s","t","a","r","t","_","f","o","r","w","a","r","d","i","n","g">>, "cmd_start_forwarding">>,
       <<<<"/","s","t","o","p","_","f","o","r","w","a","r","d","i","n","g">>, "cmd_stop_forwarding">>,
       <<<<"/","a","d","d","_","a","d","m","i","n">>, "cmd_add_admin">>,
       <<<<"/","r","e","m","o","v","e","_","a","d","m","i","n">>, "cmd_remove_admin">>,
       <<<<"/","a","d","d","_","c","h","a","n","n","e","l">>, "cmd_add_channel">>,
       <<<<"/","r","e","m","o","v","e","_","c","h","a","n","n","e","l">>, "cmd_remove_channel">>,
       <<<<"/","s","e","t","_","t","a","r","g","e","t">>, "cmd_set_target">>,
       <<<<"/","c","l","e","a","r","_","t","a","r","g","e","t">>, "cmd_clear_target">>,
       <<<<"/","a","d","d","_","l","i","n","k">>, "cmd_add_link">>,
       <<<<"/","r","e","m","o","v","e","_","l","i","n","k">>, "cmd_remove_link">>,
       <<<<"/","a","d","d","_","w","o","r","d">>, "cmd_add_word">>,
       <<<<"/","r","e","m","o","v","e","_","w","o","r","d">>, "cmd_remove_word">>,
       <<<<"/","a","d","d","_","s","e","n","t","e","n","c","e">>, "cmd_add_sentence">>,
       <<<<"/","r","e","m","o","v","e","_","s","e","n","t","e","n","c","e">>, "cmd_remove_sentence">>,
       <<<<"/","c","l","e","a","r","_","r","e","p","l","a","c","e","m","e","n","t","s">>, "cmd_clear_replacements">>,
       <<<<"/","h","e","l","p">>, "cmd_help">> >>

RECURSIVE FirstRoute(_, _)
\* The handler of the first route whose prefix the text starts with, "none" when no
\* prefix matches (the else of line 466).
FirstRoute(txt, routes) ==
    IF routes = <<>> THEN "none"
    ELSE IF StartsWith(txt, Head(routes)[1]) THEN Head(routes)[2]
    ELSE FirstRoute(txt, Tail(routes))

\* The call made by the branch of the elif chain that was taken.
CallCommand(name, cfg, chat_id, user_id, txt) ==
    CASE name = "cmd_status" -> cmd_status(cfg, chat_id)
      [] name = "cmd_admin" -> cmd_admin(cfg, chat_id)
      [] name = "cmd_channels" -> cmd_channels(cfg, chat_id)
      [] name = "cmd_target" -> cmd_target(cfg, chat_id)
      [] name = "cmd_replacements" -> cmd_replacements(cfg, chat_id)
      [] name = "cmd_start_forwarding" -> cmd_start_forwarding(cfg, chat_id)
      [] name = "cmd_stop_forwarding" -> cmd_stop_forwarding(cfg, chat_id)
      [] name = "cmd_add_admin" -> cmd_add_admin(cfg, chat_id, user_id, txt)
      [] name = "cmd_remove_admin" -> cmd_remove_admin(cfg, chat_id, user_id, txt)
      [] name = "cmd_add_channel" -> cmd_add_channel(cfg, chat_id, user_id, txt)
      [] name = "cmd_remove_channel" -> cmd_remove_channel(cfg, chat_id, user_id, txt)
      [] name = "cmd_set_target" -> cmd_set_target(cfg, chat_id, user_id, txt)
      [] name = "cmd_clear_target" -> cmd_clear_target(cfg, chat_id, user_id)
      [] name = "cmd_add_link" -> cmd_add_link(cfg, chat_id, user_id, txt)
      [] name = "cmd_remove_link" -> cmd_remove_link(cfg, chat_id, user_id, txt)
      [] name = "cmd_add_word" -> cmd_add_word(cfg, chat_id, user_id, txt)
      [] name = "cmd_remove_word" -> cmd_remove_word(cfg, chat_id, user_id, txt)
      [] name = "cmd_add_sentence" -> cmd_add_sentence(cfg, chat_id, user_id, txt)
      [] name = "cmd_remove_sentence" -> cmd_remove_sentence(cfg, chat_id, user_id, txt)
      [] name = "cmd_clear_replacements" -> cmd_clear_replacements(cfg, chat_id, user_id, txt)
      [] name = "cmd_help" -> cmd_help(cfg, chat_id)

\* What handle_message leaves: the configuration, the _expecting_first_admin_id
\* attribute, the requests issued, whether save_config ran, and the handlers entered.
Handled(cfg, expecting, calls, saved, names) ==
    [config |-> cfg, expecting |-> expecting, calls |-> calls, saved |-> saved,
     handled |-> names]

\* handle_message for a message that has a text.
RunMessage(message, cfg, expecting) ==
    LET txt == Strip(message.text)
        user_id == message.from.id
        chat_id == IntToStr(message.chat.id)
        route == FirstRoute(txt, CommandRoutes)
        cmd == CallCommand(route, cfg, chat_id, user_id, txt)
        potential_admin_id == PyInt(Strip(txt))
    IN  IF StartsWith(txt, <<"/","s","t","a","r","t">>) THEN    \* line 409
            IF cfg.admin_users = <<>>
            THEN Handled(cfg, <<chat_id>>, <<send_message(chat_id, <<"first run">>)>>, FALSE,
                         <<"handle_message">>)
            ELSE LET c == cmd_start(cfg, chat_id)
                 IN  Handled(c.config, expecting, c.calls, c.saved,
                             <<"handle_message", "cmd_start">>)
        ELSE IF is_admin(cfg, user_id) THEN
            IF route # "none"
            THEN Handled(cmd.config, expecting, cmd.calls, cmd.saved,
                         <<"handle_message", route>>)
            ELSE IF cfg.admin_users = <<>> /\ expecting = <<chat_id>>
            THEN IF potential_admin_id.ok
                 THEN Handled([cfg EXCEPT !.admin_users = Append(@, potential_admin_id.v)],
                              <<>>, <<send_message(chat_id, <<"first admin set">>)>>, TRUE,
                              <<"handle_message", "first_admin">>)
                 ELSE Handled(cfg, expecting,
                              <<send_message(chat_id, <<"Invalid User ID">>)>>, FALSE,
                              <<"handle_message", "first_admin">>)
            ELSE Handled(cfg, expecting, <<send_message(chat_id, <<"Unknown command">>)>>,
                         FALSE, <<"handle_message">>)
        ELSE Handled(cfg, expecting, <<send_message(chat_id, <<"not authorized">>)>>, FALSE,
                     <<"handle_message">>)

(***************************************************************************)
(* handle_callback_query (lines 996-1152).                                 *)
(***************************************************************************)
\* The callback data answered with one plain message (lines 1009-1055, 1096-1107,
\* 1120-1145) and with a menu (lines 1062-1093).
MessageCallbacks ==
    {"list_admins", "list_channels", "view_replacements", "add_admin_help",
     "remove_admin_help", "add_channel_help", "remove_channel_help", "add_link_help",
     "remove_link_help", "add_word_help", "remove_word_help", "add_sentence_help",
     "remove_sentence_help", "list_links", "list_words", "list_sentences"}

\* The argument of the cmd_clear_replacements calls of lines 1110-1117.
ClearCallbacks ==
    [clear_links |-> <<"/","c","l","e","a","r","_","r","e","p","l","a","c","e","m","e","n","t","s"," ","l","i","n","k","s">>,
     clear_words |-> <<"/","c","l","e","a","r","_","r","e","p","l","a","c","e","m","e","n","t","s"," ","w","o","r","d","s">>,
     clear_sentences |-> <<"/","c","l","e","a","r","_","r","e","p","l","a","c","e","m","e","n","t","s"," ","s","e","n","t","e","n","c","e","s">>,
     clear_all_replacements |-> <<"/","c","l","e","a","r","_","r","e","p","l","a","c","e","m","e","n","t","s"," ","a","l","l">>]

\* The if/elif chain of lines 1009-1145 for an admin.
CallbackBranch(data, cfg, chat_id, user_id) ==
    IF data \in MessageCallbacks THEN Done(cfg, <<send_message(chat_id, <<data>>)>>, FALSE)
    ELSE IF data \in {"manage_links", "manage_words", "manage_sentences"} THEN Done(cfg, <<send_menu(chat_id, <<data>>, data)>>, FALSE)
    ELSE IF data = "clear_target_confirm" THEN cmd_clear_target(cfg, chat_id, user_id)
    ELSE IF data \in DOMAIN ClearCallbacks
    THEN cmd_clear_replacements(cfg, chat_id, user_id, ClearCallbacks[data])
    ELSE Done(cfg, <<>>, FALSE)

\* handle_callback_query: a non-admin gets the alert of line 1005; an admin gets the
\* branch for the data and then the answer of line 1148.
RunCallbackQuery(callback_query, cfg) ==
    LET user_id == callback_query.from.id
        chat_id == IntToStr(callback_query.message.chat.id)
        data == callback_query.data
        callback_query_id == callback_query.id
        c == CallbackBranch(data, cfg, chat_id, user_id)
    IN  IF ~is_admin(cfg, user_id)
        THEN Done(cfg, <<answer_callback_query(callback_query_id, <<"Not authorized">>, TRUE)>>,
                  FALSE)
        ELSE Done(c.config,
                  c.calls \o <<answer_callback_query(callback_query_id, None, FALSE)>>,
                  c.saved)

(***************************************************************************)
(* The updates the webhook delivers, and the configurations load_config    *)
(* can return at construction.                                             *)
(***************************************************************************)
\* Number of updates processed in one run of the model.
MaxUpdates == 2

\* Strings of the inputs.
CaptionOrText == <<"a"," ","c","a","r">>

Tgt == <<"t","g","t">>

\* Chats of inbound posts: known by its id, known by its handle (in another letter
\* case than configured), unknown, with a null username (one of a configured id, one
\* of an unknown id), and without an id.
ChatById == [id |-> -100]

ChatByHandle == [id |-> -200, username |-> <<"n","e","w","s","c","h">>]

ChatOther == [id |-> -200, username |-> <<"o","t","h","e","r">>]

ChatNullUsername == [id |-> -100, username |-> None]

ChatOtherNullUsername == [id |-> -300, username |-> None]

\* Media fields of a post: each a function that is merged into the post.
Absent == [k \in {} |-> k]

PhotoField == [photo |-> <<[file_id |-> <<"small">>], [file_id |-> <<"large">>]>>]

VideoField == [video |-> [file_id |-> <<"video">>]]

DocumentField == [document |-> [file_id |-> <<"document">>]]

AnimationField == [animation |-> [file_id |-> <<"animation">>]]

MediaFields ==
    <<Absent, PhotoField, VideoField, DocumentField, AnimationField,
      PhotoField @@ VideoField, DocumentField @@ AnimationField>>

\* Posts as Telegram sends them, from the channel known by its handle: every
\* combination of text, caption and media.
WellFormedPosts ==
    { [message_id |-> 7, chat |-> ChatByHandle] @@ t @@ c @@ MediaFields[m] :
        t \in {Absent, [text |-> CaptionOrText]},
        c \in {Absent, [caption |-> CaptionOrText]}, m \in DOMAIN MediaFields }

\* The same text post from each of the other chats.
PostsByChat ==
    { [message_id |-> 7, chat |-> ch, text |-> CaptionOrText] :
        ch \in {ChatById, ChatOther, ChatNullUsername, ChatOtherNullUsername,
                [username |-> <<"n","e","w","s","c","h">>]} }

\* Malformed posts: no chat, no message_id, an empty photo list, a photo variant and
\* a video without file_id.
MalformedPosts ==
    { [message_id |-> 7, text |-> CaptionOrText],
      [chat |-> ChatByHandle, text |-> CaptionOrText],
      [message_id |-> 7, chat |-> ChatByHandle, caption |-> CaptionOrText, photo |-> <<>>],
      [message_id |-> 7, chat |-> ChatByHandle, caption |-> CaptionOrText,
       photo |-> <<[file_id |-> <<"small">>], [width |-> 90]>>],
      [message_id |-> 7, chat |-> ChatByHandle, caption |-> CaptionOrText,
       video |-> [duration |-> 3]] }

Posts == WellFormedPosts \cup PostsByChat \cup MalformedPosts

\* User 1 is the admin of the configured initial states; user 2 is not.
AdminTexts ==
    { <<"/","s","t","a","r","t">>,
      <<"/","s","t","a","r","t","_","f","o","r","w","a","r","d","i","n","g">>,
      <<"/","s","t","o","p","_","f","o","r","w","a","r","d","i","n","g">>,
      <<"/","s","t","a","t","u","s">>,
      <<"/","h","e","l","p">>,
      <<"/","a","d","d","_","a","d","m","i","n"," ","2">>,
      <<"/","r","e","m","o","v","e","_","a","d","m","i","n"," ","2">>,
      <<"/","r","e","m","o","v","e","_","a","d","m","i","n"," ","1">>,
      <<"/","a","d","d","_","c","h","a","n","n","e","l"," ","@","N","e","w","s","C","h">>,
      <<"/","a","d","d","_","c","h","a","n","n","e","l"," ","-","1","0","0">>,
      <<"/","a","d","d","_","c","h","a","n","n","e","l"," ","@">>,
      <<"/","r","e","m","o","v","e","_","c","h","a","n","n","e","l"," ","@","n","e","w","s","c","h">>,
      <<"/","s","e","t","_","t","a","r","g","e","t"," ","@","t","g","t">>,
      <<"/","s","e","t","_","t","a","r","g","e","t"," ","@">>,
      <<"/","c","l","e","a","r","_","t","a","r","g","e","t">>,
      <<"/","t","a","r","g","e","t">>,
      <<"/","a","d","d","_","l","i","n","k"," ","o","l","d",".","c","o","m","|","c","a","r">>,
      <<"/","a","d","d","_","l","i","n","k"," ","o","l","d",".","c","o","m","|","b","u","s">>,
      <<"/","a","d","d","_","w","o","r","d"," ","c","a","r","|","b","u","s">>,
      <<"/","a","d","d","_","w","o","r","d"," ","c","a","r","|","\\","1">>,
      <<"/","a","d","d","_","l","i","n","k"," ","|","c","a","r">>,
      <<"/","a","d","d","_","w","o","r","d"," ","c","a","r","|">>,
      <<"/","a","d","d","_","c","h","a","n","n","e","l"," ","@","@","x">>,
      <<"/","a","d","d","_","c","h","a","n","n","e","l"," ","@","n","e","w","s","c","h">>,
      <<"/","a","d","d","_","s","e","n","t","e","n","c","e"," ","a"," ","b","u","s","|","X">>,
      <<"/","r","e","m","o","v","e","_","l","i","n","k"," ","o","l","d",".","c","o","m">>,
      <<"/","r","e","m","o","v","e","_","w","o","r","d"," ","c","a","r">>,
      <<"/","r","e","m","o","v","e","_","s","e","n","t","e","n","c","e"," ","a"," ","b","u","s">>,
      <<"/","c","l","e","a","r","_","r","e","p","l","a","c","e","m","e","n","t","s"," ","a","l","l">>,
      <<"/","c","l","e","a","r","_","r","e","p","l","a","c","e","m","e","n","t","s"," ","w","o","r","d","s">>,
      <<"/","c","l","e","a","r","_","r","e","p","l","a","c","e","m","e","n","t","s">>,
      <<"/","a","d","m","i","n">>,
      <<"/","c","h","a","n","n","e","l","s">>,
      <<"/","r","e","p","l","a","c","e","m","e","n","t","s">>,
      <<"1">>,
      <<"h","e","l","l","o">> }

OtherTexts ==
    { <<"/","s","t","a","r","t">>,
      <<"/","s","t","a","r","t","_","f","o","r","w","a","r","d","i","n","g">>,
      <<"/","c","l","e","a","r","_","t","a","r","g","e","t">>,
      <<"/","a","d","d","_","a","d","m","i","n"," ","2">>,
      <<"/","r","e","m","o","v","e","_","a","d","m","i","n"," ","1">>,
      <<"2">>,
      <<"h","e","l","l","o">> }

\* Private chats: the chat id is the user's id.
Messages ==
    { [text |-> t, from |-> [id |-> 1], chat |-> [id |-> 1]] : t \in AdminTexts }
    \cup { [text |-> t, from |-> [id |-> 2], chat |-> [id |-> 2]] : t \in OtherTexts }
    \cup { [from |-> [id |-> 1], chat |-> [id |-> 1]] }

CallbackData ==
    {"clear_target_confirm", "clear_all_replacements", "clear_words", "list_admins",
     "manage_links", "no_such_button"}

\* The last two are queries as the Bot API allows them too: `message` and `data` are
\* optional fields of a CallbackQuery (a button of an inline-mode message, a game).
CallbackQueries ==
    { [id |-> <<"q">>, from |-> [id |-> u], message |-> [chat |-> [id |-> u]], data |-> d] :
        u \in {1, 2}, d \in CallbackData }
    \cup { [id |-> <<"q">>, from |-> [id |-> 1], data |-> "list_admins"],
           [id |-> <<"q">>, from |-> [id |-> 1], message |-> [chat |-> [id |-> 1]]] }

\* A ruleset as the commands store it.
CarToBus == [NoRules EXCEPT !.words = << <<<<"c","a","r">>, <<"b","u","s">>>> >>]

\* load_config (lines 64-89): the defaults when there is no file, otherwise what the
\* file holds.
LoadedConfigs ==
    { [admin_users |-> <<1>>, source_channels |-> src, target_channel |-> tgt,
       replacements |-> r, forwarding_enabled |-> en] :
        src \in {<<>>, <<<<"N","e","w","s","C","h">>, <<"-","1","0","0">>>>}, tgt \in {<<>>, Tgt},
        r \in {NoRules, CarToBus}, en \in BOOLEAN }

Init ==
    /\ \/ config = DefaultConfig /\ config_file = <<>>
       \/ config \in LoadedConfigs /\ config_file = <<config>>
    /\ expecting_first_admin_id = <<>>
    /\ update = NoUpdate
    /\ handled = <<>>
    /\ log = <<>>
    /\ api_calls = <<>>
    /\ escaped = <<>>
    /\ nupdates = 0
    /\ text = <<>>
    /\ modified_text = <<>>
    /\ pc = "idle"
    /\ returned = <<>>
    /\ fault = <<>>
    /\ tasks = <<>>
    /\ configs_seen = {}

\* save_config (lines 91-110), when a handler called it.
Saved(saved, cfg) == IF saved THEN <<cfg>> ELSE config_file

\* A post handler that would switch forwarding off after looking at a post.
ConfigStoppedAfterPost(post, cfg) == [cfg EXCEPT !.forwarding_enabled = FALSE]

\* The configuration handle_channel_post and forward_channel_message leave (lines
\* 303-397): self.config is read at lines 305, 309, 318, 340 and in apply_replacements,
\* no statement assigns a field of it, and save_config is not called.
ConfigAfterPost(post, cfg) == cfg

\* process_update (lines 285-301) for an update with a channel_post:
\* handle_channel_post runs, and what it raises is caught and logged at line 300.
handle_channel_post(post) ==
    /\ nupdates < MaxUpdates
    /\ LET r == RunChannelPost(post, config)
       IN  /\ api_calls' = r.calls
           /\ log' = r.logs
           /\ escaped' = r.exc
    /\ update' = [channel_post |-> post]
    /\ handled' = <<"handle_channel_post">>
    /\ nupdates' = nupdates + 1
    /\ config' = ConfigAfterPost(post, config)
    /\ UNCHANGED <<expecting_first_admin_id, config_file, applyVars, tasks, configs_seen>>

\* process_update for an update with a message.
handle_message(message) ==
    /\ nupdates < MaxUpdates
    /\ IF "text" \notin DOMAIN message
       THEN /\ handled' = <<"handle_message">>
            /\ api_calls' = <<>>
            /\ UNCHANGED <<config, expecting_first_admin_id, config_file>>
       ELSE LET r == RunMessage(message, config, expecting_first_admin_id)
            IN  /\ config' = r.config
                /\ expecting_first_admin_id' = r.expecting
                /\ config_file' = Saved(r.saved, r.config)
                /\ api_calls' = r.calls
                /\ handled' = r.handled
    /\ update' = [message |-> message]
    /\ log' = <<>>
    /\ escaped' = <<>>
    /\ nupdates' = nupdates + 1
    /\ UNCHANGED <<applyVars, tasks, configs_seen>>

\* process_update for an update with a callback_query.
\* Lines 998-1001 read from.id, message.chat.id, data and id before the try of line
\* 1003: a KeyError there leaves the handler and is caught at line 300.
handle_callback_query(callback_query) ==
    /\ nupdates < MaxUpdates
    /\ IF {"from", "message", "data", "id"} \subseteq DOMAIN callback_query
       THEN LET r == RunCallbackQuery(callback_query, config)
            IN  /\ config' = r.config
                /\ config_file' = Saved(r.saved, r.config)
                /\ api_calls' = r.calls
                /\ escaped' = <<>>
       ELSE /\ api_calls' = <<>>
            /\ escaped' = <<"KeyError">>
            /\ UNCHANGED <<config, config_file>>
    /\ update' = [callback_query |-> callback_query]
    /\ handled' = <<"handle_callback_query">>
    /\ log' = <<>>
    /\ nupdates' = nupdates + 1
    /\ UNCHANGED <<expecting_first_admin_id, applyVars, tasks, configs_seen>>

Next ==
    \/ \E post \in Posts : handle_channel_post(post)
    \/ \E message \in Messages : handle_message(message)
    \/ \E callback_query \in CallbackQueries : handle_callback_query(callback_query)

Spec == Init /\ [][Next]_vars

(***************************************************************************)
(* The handlers under the event loop.  aiohttp runs webhook_handler (lines  *)
(* 259-272) as one task per request, all on one thread: a task runs until   *)
(* it waits for the network, which it does in session.post (line 153) and   *)
(* nowhere else after request.json(); awaiting a coroutine of the bot does  *)
(* not give the loop a turn.  A step of SpecAwait is one such run of one    *)
(* task.  api_calls holds the requests in the order they were transmitted.  *)
(***************************************************************************)
\* A request whose payload would be completed when the task resumes: the target is
\* read again.
TargetReadOnResume(request, cfg) == [request EXCEPT !.payload.chat_id = cfg.target_channel]

\* _send_api_request (lines 148-153): the payload is the dict its caller built before
\* the task waited; what is transmitted is that dict, whatever self.config has become.
SentOnResume(request, cfg) == request

\* A handler that sends a request again when the response is not ok.
RetryOnFailure(pending, ok) == IF ok THEN Tail(pending) ELSE pending

\* The requests a task still has to send once _send_api_request has returned (lines
\* 148-173: the response, or ok=false for whatever went wrong).  Every caller awaits
\* the send as a statement (lines 360-397 for a post) and drops the result.
AfterResponse(pending, ok) == Tail(pending)

\* A task: the update it handles, the requests it has built and not yet seen
\* transmitted (it waits for the first of them), those transmitted with the ok of
\* their responses, what the handler will have logged, and whether its save_config
\* is still to come.  A started task also has `read`, the self.config it started with.
Task(kind, input, pending, ran, unsaved) ==
    [kind |-> kind, input |-> input, pending |-> pending, sent |-> <<>>, oks |-> <<>>,
     ran |-> ran, unsaved |-> unsaved]

\* A handler that keeps the posts it has taken in and drops one it has seen before.
SeenBeforeDropped(post, cfg, before) ==
    IF \E i \in 1..Len(before) : before[i].input = post
    THEN Ran(<<>>, <<"duplicate">>, <<>>)
    ELSE RunChannelPost(post, cfg)

\* What handle_channel_post decides for a post when the tasks `before` have started
\* (lines 303-397).  The handler reads its argument and self.config; of the bot's
\* attributes (lines 50-62) it reads no other, it writes none, and the module has no
\* global it assigns: nothing of the tasks before reaches the decision.
PostDecision(post, cfg, before) == RunChannelPost(post, cfg)

\* The posts and the admin's commands of SpecAwait.
AwaitPosts ==
    { [message_id |-> 7, chat |-> ChatByHandle, text |-> CaptionOrText],
      [message_id |-> 7, chat |-> ChatByHandle, caption |-> CaptionOrText]
          @@ PhotoField,
      [message_id |-> 7, chat |-> ChatById, text |-> CaptionOrText],
      [message_id |-> 7, chat |-> ChatOther, text |-> CaptionOrText] }

AwaitMessages ==
    { [text |-> t, from |-> [id |-> 1], chat |-> [id |-> 1]] :
        t \in { <<"/","c","l","e","a","r","_","t","a","r","g","e","t">>,
                <<"/","s","e","t","_","t","a","r","g","e","t"," ","@","t","g","t">>,
                <<"/","s","e","t","_","t","a","r","g","e","t"," ","@">>,
                <<"/","s","t","o","p","_","f","o","r","w","a","r","d","i","n","g">>,
                <<"/","a","d","d","_","w","o","r","d"," ","c","a","r","|","b","u","s">>,
                <<"/","c","l","e","a","r","_","r","e","p","l","a","c","e","m","e","n","t","s"," ","a","l","l">>,
                <<"/","r","e","m","o","v","e","_","c","h","a","n","n","e","l"," ","@","n","e","w","s","c","h">>,
                <<"/","s","t","a","t","u","s">> } }

\* The bot has loaded a configuration with an admin; no task has started.
AwaitInit ==
    /\ config \in LoadedConfigs
    /\ config_file = <<config>>
    /\ expecting_first_admin_id = <<>>
    /\ update = NoUpdate
    /\ handled = <<>>
    /\ log = <<>>
    /\ api_calls = <<>>
    /\ escaped = <<>>
    /\ nupdates = 0
    /\ text = <<>>
    /\ modified_text = <<>>
    /\ pc = "idle"
    /\ returned = <<>>
    /\ fault = <<>>
    /\ tasks = <<>>
    /\ configs_seen = {config}

\* A task for a channel post runs from request.json() (line 262) to its first wait.
\* handle_channel_post and forward_channel_message read self.config at lines 305,
\* 309, 318, 340 and in apply_replacements (346-347) and build the payload (lines
\* 177-252) before session.post: the whole decision is made in this run.  A post that
\* is not relayed is finished in it.
PostTaskStarts(post) ==
    /\ nupdates < MaxUpdates
    /\ \E r \in {PostDecision(post, config, tasks)} :
           /\ tasks' = Append(tasks, Task("post", post, r.calls, r, FALSE) @@ [read |-> config])
           /\ log' = IF r.calls = <<>> THEN r.logs ELSE log
           /\ escaped' = IF r.calls = <<>> THEN r.exc ELSE escaped
    /\ update' = [channel_post |-> post]
    /\ handled' = <<"handle_channel_post">>
    /\ nupdates' = nupdates + 1
    /\ config' = ConfigAfterPost(post, config)
    /\ UNCHANGED <<expecting_first_admin_id, config_file, api_calls, configs_seen, applyVars>>

\* A task for an admin's command runs to its first wait, the send_message of its
\* first reply.  Every command handler assigns self.config before that (lines 600,
\* 607, 673, 699, 725, 755, 782, 798-802, 825, 845, 871, 891, 917, 937, 970, 985);
\* save_config comes just before the last reply (line 805 after the reply of line
\* 803, otherwise before the only reply).
MessageTaskStarts(message) ==
    /\ nupdates < MaxUpdates
    /\ \E r \in {RunMessage(message, config, expecting_first_admin_id)} :
           /\ config' = r.config
           /\ configs_seen' = configs_seen \cup {r.config}
           /\ expecting_first_admin_id' = r.expecting
           /\ config_file' = Saved(r.saved /\ Len(r.calls) = 1, r.config)
           /\ tasks' = Append(tasks, Task("message", message, r.calls, r,
                                          r.saved /\ Len(r.calls) > 1) @@ [read |-> config])
           /\ handled' = r.handled
    /\ update' = [message |-> message]
    /\ nupdates' = nupdates + 1
    /\ UNCHANGED <<log, escaped, api_calls, applyVars>>

\* The request task i waits for is transmitted and the task runs on: to the wait for
\* its next request, with save_config on the way if that is the last reply, or to
\* its end, where handle_channel_post logs (line 332), whether the response was ok
\* or not.
TaskResumes(i, ok) ==
    /\ i \in 1..Len(tasks)
    /\ tasks[i].pending # <<>>
    /\ LET task == tasks[i]
           request == SentOnResume(Head(task.pending), config)
           saves == task.unsaved /\ Len(task.pending) = 2
       IN  /\ api_calls' = Append(api_calls, request)
           /\ tasks' = [tasks EXCEPT ![i].pending = AfterResponse(@, ok),
                                     ![i].sent = Append(@, request),
                                     ![i].oks = Append(@, ok),
                                     ![i].unsaved = @ /\ ~saves]
           /\ config_file' = Saved(saves, config)
           /\ log' = IF task.kind = "post" THEN task.ran.logs ELSE log
           /\ escaped' = IF task.kind = "post" THEN task.ran.exc ELSE escaped
    /\ UNCHANGED <<config, expecting_first_admin_id, update, handled, nupdates, configs_seen,
                   applyVars>>

AwaitNext ==
    \/ \E post \in AwaitPosts : PostTaskStarts(post)
    \/ \E message \in AwaitMessages : MessageTaskStarts(message)
    \/ \E i \in 1..MaxUpdates, ok \in BOOLEAN : TaskResumes(i, ok)

SpecAwait == AwaitInit /\ [][AwaitNext]_vars

(***************************************************************************)
(* cmd_start_forwarding called as a handler.  Under Spec the route of line  *)
(* 434 is never taken (line 409 takes every text that begins with /start),  *)
(* so SpecStartForwarding calls the handler itself, the way line 435 would, *)
(* on a bot in any configuration.                                           *)
(***************************************************************************)
StartForwardingInit ==
    /\ config \in { [admin_users |-> adm, source_channels |-> src, target_channel |-> tgt,
                     replacements |-> r, forwarding_enabled |-> en] :
                       adm \in {<<1>>, <<1, 2>>},
                       src \in {<<>>, <<<<"-","1","0","0">>>>,
                                <<<<"N","e","w","s","C","h">>, <<"-","1","0","0">>>>},
                       tgt \in {<<>>, Tgt}, r \in {NoRules, CarToBus}, en \in BOOLEAN }
    /\ text = <<>>
    /\ modified_text = <<>>
    /\ pc = "idle"
    /\ returned = <<>>
    /\ fault = <<>>
    /\ BotIdle

\* `await self.cmd_start_forwarding(chat_id, user_id)` for an admin of the bot.
StartForwardingCalled(user_id) ==
    /\ nupdates < MaxUpdates
    /\ is_admin(config, user_id)
    /\ LET r == cmd_start_forwarding(config, IntToStr(user_id))
       IN  /\ config' = r.config
           /\ config_file' = Saved(r.saved, r.config)
           /\ api_calls' = r.calls
    /\ handled' = <<"cmd_start_forwarding">>
    /\ nupdates' = nupdates + 1
    /\ UNCHANGED <<expecting_first_admin_id, update, log, escaped, applyVars, tasks,
                   configs_seen>>

StartForwardingNext == \E user_id \in {1, 2} : StartForwardingCalled(user_id)

SpecStartForwarding == StartForwardingInit /\ [][StartForwardingNext]_vars

(***************************************************************************)
(* Properties of the forwarding pipeline, checked under Spec unless said   *)
(* otherwise.  A property about one handled update reads the update and    *)
(* what its handler left behind: api_calls, log, escaped, handled.         *)
(***************************************************************************)
\* The last update was a channel post.
PostHandled == "channel_post" \in DOMAIN update

\* The last update was a message with a text.
TextMessageHandled == "message" \in DOMAIN update /\ "text" \in DOMAIN update.message

RelayMethods == {"copyMessage", "sendMessage", "sendPhoto", "sendVideo", "sendDocument"}

\* The relay requests issued for the last update.
RelayCalls == SelectSeq(api_calls, LAMBDA c : c.method \in RelayMethods)

\* The entry of source_channels names the chat: by its id or, in any letter case, by
\* its handle.
EntryNames(source, chat) ==
    LET normalized_source == LStripChar(source, "@")
        channel_username == Get(chat, "username", <<>>)
    IN  \/ IntToStr(chat.id) = normalized_source
        \/ channel_username # None /\ Lower(channel_username) = Lower(normalized_source)

\* The chat of the last post is, respectively is not, one of source_channels.
PostFromSource ==
    /\ "chat" \in DOMAIN update.channel_post
    /\ "id" \in DOMAIN update.channel_post.chat
    /\ \E i \in DOMAIN config.source_channels :
          EntryNames(config.source_channels[i], update.channel_post.chat)

PostFromElsewhere ==
    /\ "chat" \in DOMAIN update.channel_post
    /\ "id" \in DOMAIN update.channel_post.chat
    /\ \A i \in DOMAIN config.source_channels :
          ~EntryNames(config.source_channels[i], update.channel_post.chat)

\* C1: a post handled while forwarding_enabled is false or target_channel is empty
\* has no relay request issued for it, under every configuration the admin commands
\* and buttons can reach.
C1_NoRelayWhenDisabledOrNoTarget ==
    (PostHandled /\ (~config.forwarding_enabled \/ config.target_channel = <<>>))
        => RelayCalls = <<>>

\* C1, its case: a post of a configured source with a target set is dropped because
\* forwarding is disabled.
C1_Witness ==
    /\ PostHandled
    /\ ~config.forwarding_enabled
    /\ config.target_channel = Tgt
    /\ PostFromSource
    /\ "message_id" \in DOMAIN update.channel_post
    /\ RelayCalls = <<>>
    /\ log = <<"Forwarding disabled">>

\* C2: a post whose channel id and handle match no entry of source_channels is not
\* relayed, and handle_channel_post returns without raising.  The code does not
\* satisfy this: with a null username the comparison of line 322 raises.
C2_NonSourceDroppedQuietly ==
    (PostHandled /\ PostFromElsewhere) => (RelayCalls = <<>> /\ escaped = <<>>)

\* C3: a post that passes the three preconditions (forwarding enabled, target set,
\* channel is a source) has exactly one relay request issued for it.  The code does
\* not satisfy this on every post: see C6.
C3_ExactlyOneRelay ==
    (PostHandled /\ config.forwarding_enabled /\ config.target_channel # <<>>
        /\ PostFromSource)
        => Len(RelayCalls) = 1

\* C4: when apply_replacements leaves both the text and the caption of a relayed post
\* as they were, the relay is copyMessage of the post's message id without a caption;
\* so a re-send, or a copyMessage carrying a caption, is issued only for a post whose
\* text or caption was changed.
C4_ResendOnlyWhenChanged ==
    (PostHandled /\ RelayCalls # <<>>) =>
        LET post == update.channel_post
            original_text == Get(post, "text", <<>>)
            original_caption == Get(post, "caption", <<>>)
            unchanged ==
                /\ apply_replacements(original_text, config.replacements) = original_text
                /\ apply_replacements(original_caption, config.replacements)
                       = original_caption
            call == RelayCalls[1]
        IN  /\ unchanged =>
                  call = copy_message(IntToStr(post.chat.id), config.target_channel,
                                      post.message_id, None)
            /\ (call.method # "copyMessage" \/ "caption" \in DOMAIN call.payload)
                  => ~unchanged

\* C4, its case: a photo post with a caption, handled while rules are configured that
\* leave the caption as it is, is relayed by a plain copyMessage.
C4_Witness ==
    /\ PostHandled
    /\ config.replacements # NoRules
    /\ "photo" \in DOMAIN update.channel_post
    /\ "caption" \in DOMAIN update.channel_post
    /\ "message_id" \in DOMAIN update.channel_post
    /\ "chat" \in DOMAIN update.channel_post
    /\ api_calls = <<copy_message(IntToStr(update.channel_post.chat.id), Tgt,
                                  update.channel_post.message_id, None)>>

\* C5 (under SpecApply): once a stage of apply_replacements has raised, the call has
\* returned, and what it returned is the text it was given.
C5_OriginalReturnedOnFault ==
    fault # <<>> => (pc = "done" /\ returned = <<text>>)

\* C5, its case: a rule raised after earlier rules had already changed modified_text.
C5_Witness ==
    /\ fault # <<>>
    /\ modified_text # text
    /\ returned = <<text>>

\* C6: no channel post, however malformed, makes handle_channel_post raise into its
\* caller: the handler ends with a relay request or with a logged suppression.  The
\* code does not satisfy this: lines 313-322 are outside the try of line 330.
C6_NothingEscapes ==
    PostHandled => (escaped = <<>> /\ (RelayCalls # <<>> \/ log # <<>>))

\* C7: the message /start_forwarding of an admin, with a target set and a source
\* configured, leaves forwarding_enabled true.  The code does not satisfy this: the
\* text starts with /start, so line 409 routes it to cmd_start.
C7_StartForwardingEnables ==
    [][(/\ TextMessageHandled'
        /\ Strip(update'.message.text)
               = <<"/","s","t","a","r","t","_","f","o","r","w","a","r","d","i","n","g">>
        /\ is_admin(config, update'.message.from.id)
        /\ config.target_channel # <<>>
        /\ config.source_channels # <<>>)
          => config'.forwarding_enabled]_vars

\* C8: with admin_users empty, a number sent in the chat in which /start was answered
\* by the first-run prompt is added to admin_users.  The code does not satisfy this:
\* the branch of lines 466-482 is under the is_admin test of line 423.
C8_FirstAdminBootstrap ==
    [][(/\ config.admin_users = <<>>
        /\ expecting_first_admin_id # <<>>
        /\ TextMessageHandled'
        /\ <<IntToStr(update'.message.chat.id)>> = expecting_first_admin_id
        /\ PyInt(update'.message.text).ok)
          => InList(config'.admin_users, PyInt(update'.message.text).v)]_vars

\* cmd_clear_target was called for the last update: by the command, or by the button
\* clear_target_confirm pressed by an admin.
ClearTargetCalled ==
    \/ handled = <<"handle_message", "cmd_clear_target">>
    \/ /\ "callback_query" \in DOMAIN update
       /\ {"message", "data"} \subseteq DOMAIN update.callback_query
       /\ update.callback_query.data = "clear_target_confirm"
       /\ is_admin(config, update.callback_query.from.id)

\* C9: cmd_clear_target called with a target set ends with target_channel empty and
\* forwarding_enabled false, whatever forwarding_enabled was; called with no target
\* set it changes neither the configuration nor the configuration file.
C9_ClearTargetStopsForwarding ==
    [][ClearTargetCalled' =>
          IF config.target_channel # <<>>
          THEN /\ config'.target_channel = <<>>
               /\ ~config'.forwarding_enabled
               /\ config' = [config EXCEPT !.target_channel = <<>>,
                                           !.forwarding_enabled = FALSE]
               /\ config_file' = <<config'>>
          ELSE config' = config /\ config_file' = config_file]_vars

\* C9, its case: cmd_clear_target found a target and forwarding enabled, and said
\* that it stopped forwarding.
C9_Witness ==
    /\ ClearTargetCalled
    /\ \E i \in DOMAIN api_calls :
          /\ api_calls[i].method = "sendMessage"
          /\ api_calls[i].payload.text = <<"Forwarding automatically stopped">>
    /\ config.target_channel = <<>>
    /\ ~config.forwarding_enabled

\* C10 (under SpecApply): the stages run in the order links, words, sentences, each
\* on what the stage before it produced: the word rules are given the output of the
\* link rules, the sentence rules the output of the word rules, and the call returns
\* the output of the sentence rules.
C10_LinksThenWordsThenSentences ==
    fault = <<>> =>
        LET repl == config.replacements
            afterLinks == LinkStage(text, repl).s
            afterWords == WordStage(afterLinks, repl).s
            afterSentences == SentenceStage(afterWords, repl).s
        IN  /\ pc = "links" => modified_text = text
            /\ pc = "words" => modified_text = afterLinks
            /\ pc = "sentences" => modified_text = afterWords
            /\ (pc = "done" /\ Truthy(text)) => returned = <<afterSentences>>

\* C10, its case: a link rule produces the word a word rule replaces, which produces
\* the sentence a sentence rule replaces; no other order gives this result.
C10_Witness ==
    /\ pc = "done"
    /\ fault = <<>>
    /\ text = <<"V","i","s","i","t"," ","o","l","d",".","c","o","m"," ","n","o","w">>
    /\ returned = << <<"V","i","s","i","t"," ","H","i"," ","n","o","w">> >>

(***************************************************************************)
(* Properties of the three stages of apply_replacements, under SpecApply.  *)
(* A stage is observed as one step: modified_text before it, and           *)
(* modified_text and fault after it.                                       *)
(***************************************************************************)
\* The orders of a rule list in which no key comes before a longer one.
DescendingOrders(rules) ==
    { p \in Permutations(DOMAIN rules) :
        \A i, j \in DOMAIN rules :
            i < j => Len(Key(rules[p[i]])) >= Len(Key(rules[p[j]])) }

\* The rules in the order p.
InOrder(rules, p) == [i \in DOMAIN rules |-> rules[p[i]]]

HelloRule == << <<"h","e","l","l","o">>, <<"h","i">> >>

HelloWorldRule ==
    << <<"h","e","l","l","o"," ","w","o","r","l","d">>,
       <<"g","r","e","e","t","i","n","g","s">> >>

\* C11: the words stage and the sentences stage apply their rules in an order of
\* descending key length, whatever the insertion order: what a stage that did not
\* raise leaves in modified_text is what the rules give when applied longest key
\* first.  With hello->hi and "hello world"->greetings, "hello world" becomes
\* "greetings".
C11_LongestKeyFirst ==
    [][/\ (pc = "words" /\ fault' = <<>> /\ config.replacements.words # <<>>) =>
              \E p \in DescendingOrders(config.replacements.words) :
                  modified_text'
                      = ReSubEach(modified_text, InOrder(config.replacements.words, p)).s
       /\ (pc = "sentences" /\ fault' = <<>> /\ config.replacements.sentences # <<>>) =>
              \E p \in DescendingOrders(config.replacements.sentences) :
                  modified_text'
                      = ReplaceEach(modified_text,
                                    InOrder(config.replacements.sentences, p)).s]_vars

\* C11, its case: the shorter key was inserted first, and the longer one was applied.
C11_Witness ==
    /\ pc = "sentences"
    /\ config.replacements.links = <<>>
    /\ config.replacements.words = <<HelloRule, HelloWorldRule>>
    /\ text = Key(HelloWorldRule)
    /\ modified_text = Val(HelloWorldRule)

\* Does the word rule old find something to replace in s?
WordOccurs(s, old) ==
    \E i \in 1..Len(s) :
        WordMatchAt(SubSeq(s, i - 1, i - 1), SubSeq(s, i, Len(s)), old)

\* C12: the words stage inserts the replacement value verbatim: with one word rule
\* (old, new) whose key occurs in the text, the stage does not raise and leaves the
\* text with every match replaced by the characters of new.  The code does not
\* satisfy this: new is given to re.sub as a template (line 135), so a value such as
\* \1 is rejected and the whole call returns the original text.
C12_WordValueVerbatim ==
    [][(/\ pc = "words"
        /\ Len(config.replacements.words) = 1
        /\ IsStr(Val(config.replacements.words[1]))
        /\ WordOccurs(modified_text, Key(config.replacements.words[1])))
          => /\ fault' = <<>>
             /\ modified_text' = SubScan(<<>>, modified_text,
                                         Key(config.replacements.words[1]),
                                         Val(config.replacements.words[1]))]_vars

RECURSIVE WholeWordsReplaced(_, _, _, _, _)
\* r is s with every stand-alone occurrence of old, in any letter case, replaced by
\* new, and nothing else changed; prev is the character before s, if any.  An
\* occurrence is stand-alone when neither neighbour is a word character.
WholeWordsReplaced(prev, s, r, old, new) ==
    IF s = <<>> THEN r = <<>>
    ELSE IF /\ Len(s) >= Len(old)
            /\ Lower(SubSeq(s, 1, Len(old))) = Lower(old)
            /\ (prev = <<>> \/ ~IsWordChar(prev[1]))
            /\ (Len(s) = Len(old) \/ ~IsWordChar(s[Len(old) + 1]))
    THEN /\ Len(r) >= Len(new)
         /\ SubSeq(r, 1, Len(new)) = new
         /\ WholeWordsReplaced(<<s[Len(old)]>>, SubSeq(s, Len(old) + 1, Len(s)),
                               SubSeq(r, Len(new) + 1, Len(r)), old, new)
    ELSE /\ r # <<>>
         /\ r[1] = s[1]
         /\ WholeWordsReplaced(<<s[1]>>, Tail(s), Tail(r), old, new)

\* A word rule whose key is made of word characters and whose value holds no
\* backslash.
PlainWordRule(rule) ==
    /\ Key(rule) # <<>>
    /\ \A i \in 1..Len(Key(rule)) : IsWordChar(Key(rule)[i])
    /\ IsStr(Val(rule))
    /\ \A i \in 1..Len(Val(rule)) : Val(rule)[i] # "\\"

\* C13: a word rule replaces the stand-alone occurrences of its key, in any letter
\* case, and no occurrence inside a longer word: car->bus leaves "The CARPET is red"
\* as it is.
C13_WholeWordsAnyCase ==
    [][(/\ pc = "words"
        /\ Len(config.replacements.words) = 1
        /\ PlainWordRule(config.replacements.words[1]))
          => /\ fault' = <<>>
             /\ WholeWordsReplaced(<<>>, modified_text, modified_text',
                                   Key(config.replacements.words[1]),
                                   Val(config.replacements.words[1]))]_vars

\* C13, its case: CAR stands alone and is replaced, the car of cars is not.
C13_Witness ==
    /\ pc = "sentences"
    /\ config.replacements.links = <<>>
    /\ config.replacements.words = << << <<"c","a","r">>, <<"b","u","s">> >> >>
    /\ text = <<"C","A","R"," ","c","a","r","s">>
    /\ modified_text = <<"b","u","s"," ","c","a","r","s">>

RECURSIVE LiteralReplaced(_, _, _, _)
\* r is s with every occurrence of old as an exact substring, found from the left,
\* replaced by new, and nothing else changed.
LiteralReplaced(s, r, old, new) ==
    IF s = <<>> THEN r = <<>>
    ELSE IF Len(s) >= Len(old) /\ SubSeq(s, 1, Len(old)) = old
    THEN /\ Len(r) >= Len(new)
         /\ SubSeq(r, 1, Len(new)) = new
         /\ LiteralReplaced(SubSeq(s, Len(old) + 1, Len(s)),
                            SubSeq(r, Len(new) + 1, Len(r)), old, new)
    ELSE /\ r # <<>>
         /\ r[1] = s[1]
         /\ LiteralReplaced(Tail(s), Tail(r), old, new)

\* A link or sentence rule with a key and a string value.
LiteralRule(rule) == Key(rule) # <<>> /\ IsStr(Val(rule))

\* C14: a link rule replaces every occurrence of its key as an exact substring,
\* wherever it stands, and nothing else: a text that holds the key only in another
\* letter case is left as it is.
C14_LinksLiteral ==
    [][(/\ pc = "links"
        /\ Len(config.replacements.links) = 1
        /\ LiteralRule(config.replacements.links[1]))
          => /\ fault' = <<>>
             /\ LiteralReplaced(modified_text, modified_text',
                                Key(config.replacements.links[1]),
                                Val(config.replacements.links[1]))]_vars

\* C14, its case: the key is replaced inside a longer word.
C14_Witness ==
    /\ pc = "words"
    /\ config.replacements.links
           = << << <<"o","l","d",".","c","o","m">>, <<"n","e","w",".","c","o","m">> >> >>
    /\ text = <<"c","o","l","d",".","c","o","m">>
    /\ modified_text = <<"c","n","e","w",".","c","o","m">>

\* C15: a sentence rule replaces every exact-case occurrence of its key and nothing
\* else: a text that holds the key only in another letter case is left as it is.
C15_SentencesLiteral ==
    [][(/\ pc = "sentences"
        /\ Len(config.replacements.sentences) = 1
        /\ LiteralRule(config.replacements.sentences[1]))
          => /\ fault' = <<>>
             /\ LiteralReplaced(modified_text, modified_text',
                                Key(config.replacements.sentences[1]),
                                Val(config.replacements.sentences[1]))]_vars

\* C15, its case: "good morning team" under the rule Good Morning -> Hi is returned
\* as it was given.
C15_Witness ==
    /\ pc = "done"
    /\ fault = <<>>
    /\ config.replacements.links = <<>>
    /\ config.replacements.words = <<>>
    /\ config.replacements.sentences
           = << << <<"G","o","o","d"," ","M","o","r","n","i","n","g">>, <<"H","i">> >> >>
    /\ text = <<"g","o","o","d"," ","m","o","r","n","i","n","g"," ","t","e","a","m">>
    /\ returned = <<text>>

\* C16: with no rule in any category, apply_replacements returns the text it was
\* given, for every text.
C16_IdentityWithoutRules ==
    (config.replacements = NoRules /\ pc = "done") => (returned = <<text>> /\ fault = <<>>)

\* C16, its case: a text in mixed letter case has passed the three stages unchanged.
C16_Witness ==
    /\ config.replacements = NoRules
    /\ pc = "done"
    /\ text = <<"T","h","e"," ","C","A","R","P","E","T"," ","i","s"," ","r","e","d">>
    /\ modified_text = text
    /\ returned = <<text>>

\* C17: an empty or absent text is returned as it is under every ruleset: no stage
\* is entered, nothing is raised, and the value returned is the value given.
C17_EmptyOrAbsentReturned ==
    text \in {<<>>, None} =>
        /\ pc \in {"call", "done"}
        /\ fault = <<>>
        /\ modified_text = <<>>
        /\ pc = "done" => returned = <<text>>

\* C17, its case: None was given while a rule is configured that raises when applied.
C17_Witness ==
    /\ text = None
    /\ pc = "done"
    /\ returned = <<None>>
    /\ \E i \in DOMAIN config.replacements.links :
          ~IsStr(Val(config.replacements.links[i]))

(***************************************************************************)
(* Properties of the source test and of the relay dispatch, under Spec.    *)
(***************************************************************************)
\* The last post passed the source test of lines 316-328: forward_channel_message
\* was called for it.
Recognised ==
    /\ PostHandled
    /\ log \in {<<"Forwarded message">>, <<"Error forwarding channel message">>}

\* The last post was handled with forwarding enabled and a target set, and has a
\* chat with an id: the source test was reached.
SourceTestReached ==
    /\ PostHandled
    /\ config.forwarding_enabled
    /\ config.target_channel # <<>>
    /\ "chat" \in DOMAIN update.channel_post
    /\ "id" \in DOMAIN update.channel_post.chat

\* The entry, its leading sigils stripped, is the id of the chat as a string, or is
\* the handle the chat carries, in any letter case.
EntryMatches(source, chat) ==
    \/ IntToStr(chat.id) = LStripChar(source, "@")
    \/ /\ "username" \in DOMAIN chat
       /\ chat.username # None
       /\ Lower(chat.username) = Lower(LStripChar(source, "@"))

\* C18: a post is recognised as coming from a source iff some configured entry,
\* its sigil stripped, is the post's id as a string or the post's handle in any
\* letter case.  The code does not satisfy this: see C19 (a post without handle is
\* recognised through an empty entry) and C6 (a null handle raises before the id of
\* a later entry is compared).
C18_RecognisedIffEntryMatches ==
    SourceTestReached =>
        (Recognised <=>
            \E i \in DOMAIN config.source_channels :
                EntryMatches(config.source_channels[i], update.channel_post.chat))

\* C19: a post that carries no handle is recognised only through its id, for every
\* source list the add_channel and remove_channel commands can build.  The code does
\* not satisfy this: /add_channel @ stores the empty string, which equals the
\* default handle of line 314.
C19_NoHandleOnlyById ==
    (Recognised /\ "username" \notin DOMAIN update.channel_post.chat) =>
        \E i \in DOMAIN config.source_channels :
            IntToStr(update.channel_post.chat.id)
                = LStripChar(config.source_channels[i], "@")

\* The post carries the field with a value that is not empty.
Carries(post, field) == field \in DOMAIN post /\ post[field] # <<>>

\* The first applicable branch, in the order photo, video, document, animation,
\* text-only, other.
FirstKind(post) ==
    IF Carries(post, "photo") THEN "photo"
    ELSE IF Carries(post, "video") THEN "video"
    ELSE IF Carries(post, "document") THEN "document"
    ELSE IF Carries(post, "animation") THEN "animation"
    ELSE IF Carries(post, "text") /\ post.text # None THEN "text"
    ELSE "other"

\* C20: the relay request of a post is the one of its first applicable branch in the
\* order photo, video, document, animation, text-only, other: the media of that
\* branch is re-sent with the rewritten caption when the caption was changed, a
\* text-only post is re-sent when its text was changed, and every other case is a
\* copy; the text of a post with media plays no part.
C20_DispatchPriority ==
    (PostHandled /\ RelayCalls # <<>>) =>
        LET post == update.channel_post
            to_chat_id == config.target_channel
            caption == IF "caption" \in DOMAIN post THEN post.caption ELSE <<>>
            txt == IF "text" \in DOMAIN post THEN post.text ELSE <<>>
            new_caption == apply_replacements(caption, config.replacements)
            new_text == apply_replacements(txt, config.replacements)
            copy == copy_message(IntToStr(post.chat.id), to_chat_id, post.message_id, None)
            kind == FirstKind(post)
        IN  api_calls = <<
                CASE kind = "photo" ->
                       IF new_caption # caption
                       THEN send_photo(to_chat_id, post.photo[Len(post.photo)].file_id,
                                       new_caption)
                       ELSE copy
                  [] kind = "video" ->
                       IF new_caption # caption
                       THEN send_video(to_chat_id, post.video.file_id, new_caption)
                       ELSE copy
                  [] kind = "document" ->
                       IF new_caption # caption
                       THEN send_document(to_chat_id, post.document.file_id, new_caption)
                       ELSE copy
                  [] kind = "animation" ->
                       IF new_caption # caption
                       THEN send_document(to_chat_id, post.animation.file_id, new_caption)
                       ELSE copy
                  [] kind = "text" ->
                       IF new_text # txt THEN send_message(to_chat_id, new_text) ELSE copy
                  [] kind = "other" ->
                       IF caption # <<>> /\ new_caption # caption
                       THEN copy_message(IntToStr(post.chat.id), to_chat_id,
                                         post.message_id, new_caption)
                       ELSE copy >>

\* C20, its case: a post with a photo, a video, a text and a caption that the rules
\* change is relayed as a photo with the rewritten caption.
C20_Witness ==
    /\ PostHandled
    /\ Carries(update.channel_post, "photo")
    /\ Carries(update.channel_post, "video")
    /\ Carries(update.channel_post, "text")
    /\ api_calls = <<send_photo(Tgt, <<"large">>, <<"a"," ","b","u","s">>)>>

(***************************************************************************)
(* The branches of the relay, one by one, under Spec.  The requests are     *)
(* written out as the Bot API receives them.                                *)
(***************************************************************************)
\* The caption and the text of a post, empty when it has none.
CaptionOf(post) == IF "caption" \in DOMAIN post THEN post.caption ELSE <<>>

TextOf(post) == IF "text" \in DOMAIN post THEN post.text ELSE <<>>

\* What the rules of the configuration make of a string.
Rewritten(s) == apply_replacements(s, config.replacements)

\* copyMessage of the post's message id to the target, without a caption.
PlainCopy(post) ==
    [method |-> "copyMessage",
     payload |-> [chat_id |-> config.target_channel,
                  from_chat_id |-> IntToStr(post.chat.id),
                  message_id |-> post.message_id]]

\* A media request to the target with a caption.
MediaSend(method, field, file_id, caption) ==
    [method |-> method,
     payload |-> [chat_id |-> config.target_channel, caption |-> caption,
                  parse_mode |-> "HTML"] @@ (field :> file_id)]

\* The last update was a post for which a relay request was issued.
PostRelayed == PostHandled /\ RelayCalls # <<>>

\* C21: a relayed photo post whose caption the rules leave unchanged is copied by its
\* message id; one whose caption they change is sent by sendPhoto with the rewritten
\* caption and the file id of the last element of its photo list.
C21_PhotoBranch ==
    (PostRelayed /\ FirstKind(update.channel_post) = "photo") =>
        LET post == update.channel_post
        IN  api_calls = <<IF Rewritten(CaptionOf(post)) = CaptionOf(post)
                          THEN PlainCopy(post)
                          ELSE MediaSend("sendPhoto", "photo",
                                         post.photo[Len(post.photo)].file_id,
                                         Rewritten(CaptionOf(post)))>>

\* C21, its case: a photo post with two variants and a caption that the rules change.
C21_Witness ==
    /\ PostRelayed
    /\ FirstKind(update.channel_post) = "photo"
    /\ ~Carries(update.channel_post, "video")
    /\ Len(update.channel_post.photo) = 2
    /\ api_calls[1].method = "sendPhoto"
    /\ api_calls[1].payload.photo = update.channel_post.photo[2].file_id
    /\ api_calls[1].payload.caption = <<"a"," ","b","u","s">>

\* C22: a relayed post with no media and a text is sent by sendMessage with the
\* rewritten text when the rules change the text, and copied by its message id
\* otherwise.
C22_TextBranch ==
    (PostRelayed /\ FirstKind(update.channel_post) = "text") =>
        LET post == update.channel_post
        IN  api_calls = <<IF Rewritten(TextOf(post)) = TextOf(post)
                          THEN PlainCopy(post)
                          ELSE [method |-> "sendMessage",
                                payload |-> [chat_id |-> config.target_channel,
                                             text |-> Rewritten(TextOf(post)),
                                             parse_mode |-> "HTML"]]>>

\* C22, its case: a text post without caption, its text changed by the rules.
C22_Witness ==
    /\ PostRelayed
    /\ FirstKind(update.channel_post) = "text"
    /\ "caption" \notin DOMAIN update.channel_post
    /\ api_calls[1].method = "sendMessage"
    /\ api_calls[1].payload.text = <<"a"," ","b","u","s">>

\* C23: a relayed post with no media and no text is always copied; the copy carries
\* the rewritten caption iff the post has a caption that is not empty and the rules
\* change it, and carries no caption otherwise.
C23_OtherBranch ==
    (PostRelayed /\ FirstKind(update.channel_post) = "other") =>
        LET post == update.channel_post
            override == /\ CaptionOf(post) # <<>>
                        /\ Rewritten(CaptionOf(post)) # CaptionOf(post)
        IN  api_calls = <<IF override
                          THEN [PlainCopy(post) EXCEPT !.payload =
                                    @ @@ [caption |-> Rewritten(CaptionOf(post)),
                                          parse_mode |-> "HTML"]]
                          ELSE PlainCopy(post)>>

\* C23, its case: a post with nothing but a caption, which the rules change.
C23_Witness ==
    /\ PostRelayed
    /\ FirstKind(update.channel_post) = "other"
    /\ api_calls[1].method = "copyMessage"
    /\ "caption" \in DOMAIN api_calls[1].payload
    /\ api_calls[1].payload.caption = <<"a"," ","b","u","s">>

\* C24: a relayed animation post whose caption the rules change is sent by
\* sendDocument with the animation's file id and the rewritten caption; a video post
\* by sendVideo and a document post by sendDocument, each with its own file id; all
\* three are copied by message id when the caption is unchanged.
C24_VideoDocumentAnimation ==
    (PostRelayed /\ FirstKind(update.channel_post) \in {"video", "document", "animation"}) =>
        LET post == update.channel_post
            kind == FirstKind(post)
            new_caption == Rewritten(CaptionOf(post))
        IN  api_calls = <<IF new_caption = CaptionOf(post) THEN PlainCopy(post)
                          ELSE IF kind = "video"
                          THEN MediaSend("sendVideo", "video", post.video.file_id,
                                         new_caption)
                          ELSE IF kind = "document"
                          THEN MediaSend("sendDocument", "document",
                                         post.document.file_id, new_caption)
                          ELSE MediaSend("sendDocument", "document",
                                         post.animation.file_id, new_caption)>>

\* C24, its case: an animation with a caption that the rules change.
C24_Witness ==
    /\ PostRelayed
    /\ FirstKind(update.channel_post) = "animation"
    /\ api_calls = <<MediaSend("sendDocument", "document", <<"animation">>,
                               <<"a"," ","b","u","s">>)>>

(***************************************************************************)
(* What the commands may store.                                             *)
(***************************************************************************)
\* No category of the ruleset has the empty string as a key.
NoEmptyKey(cfg) ==
    \A kind \in {"links", "words", "sentences"} :
        \A i \in 1..Len(cfg.replacements[kind]) : cfg.replacements[kind][i][1] # <<>>

\* The text of the last update begins with the command `name`.
CommandGiven(name) ==
    /\ TextMessageHandled
    /\ Len(update.message.text) >= Len(name)
    /\ SubSeq(update.message.text, 1, Len(name)) = name

\* C25: no command stores an empty key: a ruleset without an empty key has none after
\* any update, so from the empty ruleset every sequence of add, remove and clear
\* commands leaves every category without an empty key.
C25_NoEmptyKey == [][NoEmptyKey(config) => NoEmptyKey(config')]_vars

\* C25, its case: an admin's add command with an empty old half was handled, and the
\* ruleset is as it was: empty.
C25_Witness ==
    /\ CommandGiven(<<"/","a","d","d","_","l","i","n","k"," ","|">>)
    /\ is_admin(config, update.message.from.id)
    /\ config.replacements = NoRules
    /\ Len(api_calls) = 1

\* C26: no stored entry of source_channels begins with the sigil '@'.
C26_NoSigilStored ==
    \A i \in 1..Len(config.source_channels) :
        ~StartsWith(config.source_channels[i], <<"@">>)

\* C27: handling a channel post leaves the configuration, every field of it, and the
\* configuration file as they were, whether the post was suppressed, relayed or its
\* handling failed.
C27_PostLeavesConfig ==
    [][PostHandled' => (config' = config /\ config_file' = config_file)]_vars

\* C27, its case: a post was relayed by a bot whose rules an earlier command had set.
C27_Witness ==
    /\ PostRelayed
    /\ nupdates = 2
    /\ config.replacements.words # <<>>
    /\ config_file = <<config>>
    /\ api_calls[1].method = "sendMessage"

\* Forwarding is enabled only with a target.
EnabledHasTarget(cfg) == cfg.forwarding_enabled => cfg.target_channel # <<>>

\* C30: every message and callback handler preserves "forwarding_enabled implies
\* target_channel is not empty".
C30_EnabledImpliesTarget ==
    [][(~PostHandled' /\ EnabledHasTarget(config)) => EnabledHasTarget(config')]_vars

(***************************************************************************)
(* Applying the rules to a text they have already been applied to.          *)
(***************************************************************************)
\* The key old is an exact substring of s.
Occurs(s, old) ==
    \E i \in 1..(Len(s) - Len(old) + 1) : SubSeq(s, i, i + Len(old) - 1) = old

\* The character of s at position i, empty beyond the ends of s.
CharAt(s, i) == IF i \in 1..Len(s) THEN <<s[i]>> ELSE <<>>

\* There is a word boundary between the characters a and b (each a string of length
\* one, or empty at an end of the text): exactly one of them is a word character.
Boundary(a, b) ==
    (a # <<>> /\ IsWordChar(a[1])) # (b # <<>> /\ IsWordChar(b[1]))

\* The key old matches in s as the pattern of line 132 does: in any letter case,
\* with a word boundary before it and after it.
StandsAlone(s, old) ==
    \E i \in 1..(Len(s) - Len(old) + 1) :
        /\ Lower(SubSeq(s, i, i + Len(old) - 1)) = Lower(old)
        /\ Boundary(CharAt(s, i - 1), CharAt(s, i))
        /\ Boundary(CharAt(s, i + Len(old) - 1), CharAt(s, i + Len(old)))

\* No key of the ruleset matches in s.
Settled(s, repl) ==
    /\ \A i \in 1..Len(repl.links) : ~Occurs(s, Key(repl.links[i]))
    /\ \A i \in 1..Len(repl.words) : ~StandsAlone(s, Key(repl.words[i]))
    /\ \A i \in 1..Len(repl.sentences) : ~Occurs(s, Key(repl.sentences[i]))

\* C29: idempotence: when the text apply_replacements returned holds no match of any
\* key of the ruleset (no replacement value contained or created one), applying the
\* ruleset to it returns it unchanged: apply(apply(t, r), r) = apply(t, r).
C29_Idempotent ==
    (pc = "done" /\ (IsStr(returned[1]) => Settled(returned[1], config.replacements)))
        => apply_replacements(returned[1], config.replacements) = returned[1]

\* C29, its case: car -> carpet has rewritten the text, and the car of carpet is no
\* match.
C29_Witness ==
    /\ pc = "done"
    /\ text = <<"a"," ","c","a","r">>
    /\ returned = << <<"a"," ","c","a","r","p","e","t">> >>
    /\ Settled(returned[1], config.replacements)
    /\ config.replacements.words # <<>>

(***************************************************************************)
(* Post tasks and command tasks interleaved, under SpecAwait.               *)
(***************************************************************************)
\* The requests a task has built, transmitted or not.
Built(task) == task.sent \o task.pending

\* C28: whatever commands run between the runs of a post's task, its relay decision
\* is the decision of one configuration the bot has had: the requests it built are
\* those handle_channel_post makes of the post under that configuration (flag, target,
\* source list and rules together), and no request goes to an empty target.
C28_OneConfiguration ==
    \A i \in 1..Len(tasks) :
        tasks[i].kind = "post" =>
            /\ \E cfg \in configs_seen :
                   RunChannelPost(tasks[i].input, cfg).calls = Built(tasks[i])
            /\ \A k \in 1..Len(Built(tasks[i])) :
                   Built(tasks[i])[k].payload.chat_id # <<>>

\* C28, its case: a post's request was built, /clear_target then cleared the target
\* and had its first reply transmitted, and after that the post's request was
\* transmitted, to the target of the configuration it was decided from.
C28_Witness ==
    /\ Len(tasks) = 2
    /\ tasks[1].kind = "post"
    /\ tasks[2].kind = "message"
    /\ tasks[2].input.text = <<"/","c","l","e","a","r","_","t","a","r","g","e","t">>
    /\ config.target_channel = <<>>
    /\ ~config.forwarding_enabled
    /\ Len(api_calls) >= 2
    /\ tasks[2].sent # <<>> /\ api_calls[1] = tasks[2].sent[1]
    /\ tasks[1].sent # <<>> /\ api_calls[2] = tasks[1].sent[1]
    /\ api_calls[2].payload.chat_id = Tgt

(***************************************************************************)
(* The admin commands.                                                      *)
(***************************************************************************)
\* C31: cmd_start_forwarding sets forwarding_enabled only when there is a target and
\* at least one source channel, and then changes nothing else; when either is
\* missing it leaves the configuration and the configuration file as they were.
C31_StartForwardingGuarded ==
    [][handled' = <<"cmd_start_forwarding">> =>
          IF config.target_channel # <<>> /\ config.source_channels # <<>>
          THEN /\ config' = [config EXCEPT !.forwarding_enabled = TRUE]
               /\ config_file' = <<config'>>
          ELSE /\ config' = config
               /\ config_file' = config_file]_vars

\* C31, its case: the handler was called twice on a bot with a target and no source,
\* and forwarding is still off.
C31_Witness ==
    /\ handled = <<"cmd_start_forwarding">>
    /\ nupdates = 2
    /\ config.target_channel = Tgt
    /\ config.source_channels = <<>>
    /\ ~config.forwarding_enabled
    /\ api_calls[1].payload.text = <<"No source channels added">>

\* The id of the user who sent the message or pressed the button of update u.
Sender(u) ==
    IF "message" \in DOMAIN u THEN u.message.from.id ELSE u.callback_query.from.id

\* C32: a message or callback query whose sender is not in admin_users when it is
\* processed leaves the configuration and its file unchanged: the configuration is
\* modified only by updates of admins.
C32_OnlyAdminsModify ==
    [][(/\ ~PostHandled'
        /\ \A i \in 1..Len(config.admin_users) : config.admin_users[i] # Sender(update'))
          => (config' = config /\ config_file' = config_file)]_vars

\* C32, its case: user 2, no admin, sent /clear_target; the target is still set and
\* the reply is the refusal.
C32_Witness ==
    /\ TextMessageHandled
    /\ update.message.from.id = 2
    /\ update.message.text = <<"/","c","l","e","a","r","_","t","a","r","g","e","t">>
    /\ config.admin_users = <<1>>
    /\ config.target_channel = Tgt
    /\ api_calls[1].payload.text = <<"not authorized">>

\* The user id is in the admin list of cfg.
Admin(cfg, id) == \E i \in 1..Len(cfg.admin_users) : cfg.admin_users[i] = id

\* C33: no update empties a non-empty admin list, and the admin who sent an update is
\* still an admin when it has been processed: nobody removes their own id.
C33_AdminsNeverEmpty ==
    [][/\ config.admin_users # <<>> => config'.admin_users # <<>>
       /\ (~PostHandled' /\ Admin(config, Sender(update'))) => Admin(config', Sender(update'))
      ]_vars

\* C33, its case: the only admin asked for their own removal and is still the admin.
C33_Witness ==
    /\ TextMessageHandled
    /\ update.message.from.id = 1
    /\ update.message.text = <<"/","r","e","m","o","v","e","_","a","d","m","i","n"," ","1">>
    /\ config.admin_users = <<1>>
    /\ api_calls[1].payload.text = <<"You cannot remove yourself">>

\* The argument of the /remove_channel command of the last update, as line 743-745
\* normalise it.
RemovedChannel == DropSigil(Strip(Split1(Strip(update.message.text))[2]))

\* C34: when /remove_channel c has reported success, a post whose handle or id is c
\* is not recognised as a source any more.
C34_RemovedNotRecognised ==
    (/\ CommandGiven(<<"/","r","e","m","o","v","e","_","c","h","a","n","n","e","l"," ">>)
     /\ api_calls # <<>>
     /\ api_calls[1].payload.text = <<"Removed source channel">>)
        => is_source_channel(config.source_channels, RemovedChannel, RemovedChannel)
               # "match"

\* The answerCallbackQuery requests issued for the last update.
Answers == SelectSeq(api_calls, LAMBDA c : c.method = "answerCallbackQuery")

\* C35: every callback query is answered by exactly one answerCallbackQuery.  The
\* code does not satisfy this: a query without `message` or without `data` raises
\* at lines 999-1000, outside the try, and is never answered.
C35_AnsweredOnce == "callback_query" \in DOMAIN update => Len(Answers) = 1

\* On the queries that carry from, message, data and id, exactly one answer is
\* issued: with the alert for a non-admin, plain after the branch for an admin.
AnsweredOnceWhenComplete ==
    ("callback_query" \in DOMAIN update
     /\ {"from", "message", "data", "id"} \subseteq DOMAIN update.callback_query)
        => /\ Len(Answers) = 1
           /\ api_calls[Len(api_calls)].method = "answerCallbackQuery"
           /\ ("show_alert" \in DOMAIN Answers[1].payload)
                  = ~Admin(config, update.callback_query.from.id)

(***************************************************************************)
(* The ruleset as a dictionary.                                            *)
(***************************************************************************)
Kinds == {"links", "words", "sentences"}

\* The two halves of the argument of the add command of the last update.
OldGiven == Strip(SplitBar(Split1(Strip(update.message.text))[2])[1])

NewGiven == Strip(SplitBar(Split1(Strip(update.message.text))[2])[2])

\* The last update was an add command for the category `kind` that was carried out.
Added(kind) ==
    /\ TextMessageHandled
    /\ api_calls # <<>>
    /\ api_calls[1].payload.text = <<"Added replacement", kind>>

\* On the step from the rules `before` to the rules `after` of one category, the
\* key `old` was written with `new`: one rule for old, mapping to new, and the rules
\* for the other keys kept.
Written(before, after, old, new) ==
    /\ Cardinality({i \in 1..Len(after) : after[i][1] = old}) = 1
    /\ \A i \in 1..Len(after) : after[i][1] = old => after[i][2] = new
    /\ \A i \in 1..Len(before) :
          before[i][1] # old => \E j \in 1..Len(after) : after[j] = before[i]

\* The add commands an admin sends, read as kind, old and new.
AddCommands ==
    { [text |-> <<"/","a","d","d","_","l","i","n","k"," ","o","l","d",".","c","o","m","|","c","a","r">>,
       kind |-> "links", old |-> <<"o","l","d",".","c","o","m">>, new |-> <<"c","a","r">>],
      [text |-> <<"/","a","d","d","_","l","i","n","k"," ","o","l","d",".","c","o","m","|","b","u","s">>,
       kind |-> "links", old |-> <<"o","l","d",".","c","o","m">>, new |-> <<"b","u","s">>],
      [text |-> <<"/","a","d","d","_","w","o","r","d"," ","c","a","r","|","b","u","s">>,
       kind |-> "words", old |-> <<"c","a","r">>, new |-> <<"b","u","s">>],
      [text |-> <<"/","a","d","d","_","w","o","r","d"," ","c","a","r","|","\\","1">>,
       kind |-> "words", old |-> <<"c","a","r">>, new |-> <<"\\","1">>],
      [text |-> <<"/","a","d","d","_","s","e","n","t","e","n","c","e"," ","a"," ","b","u","s","|","X">>,
       kind |-> "sentences", old |-> <<"a"," ","b","u","s">>, new |-> <<"X">>] }

\* C36: keys are unique within a category and the last write wins: after an admin's
\* add of old|new the category holds exactly one rule for old, it maps to new, the
\* rules for the other keys are the ones held before, and the other two categories
\* are as they were.  With a rule for old held before, this is the second of two adds
\* of old.
C36_LastWriteWins ==
    [][\A c \in AddCommands :
         (/\ "message" \in DOMAIN update'
          /\ "text" \in DOMAIN update'.message
          /\ update'.message.text = c.text
          /\ Admin(config, update'.message.from.id))
           => /\ Written(config.replacements[c.kind], config'.replacements[c.kind],
                         c.old, c.new)
              /\ \A other \in Kinds \ {c.kind} :
                    config'.replacements[other] = config.replacements[other]]_vars

\* C36, its case: the second update was an admin's '/add_word car|\1' and the words
\* hold the one rule car -> \1; the state is the one reached from the loaded rule
\* car -> bus and from '/add_word car|bus' as the first update.
C36_Witness ==
    /\ nupdates = 2
    /\ Added("words")
    /\ OldGiven = <<"c","a","r">>
    /\ NewGiven = <<"\\","1">>
    /\ config.replacements.words = << <<<<"c","a","r">>, <<"\\","1">>>> >>
    /\ config.replacements.sentences = <<>>

(***************************************************************************)
(* Responses of the Bot API.                                               *)
(***************************************************************************)
\* The relay requests among `calls`.
Relays(calls) == SelectSeq(calls, LAMBDA c : c.method \in RelayMethods)

\* The tasks that handle a channel post.
PostTasks == {i \in 1..Len(tasks) : tasks[i].kind = "post"}

\* C37: no retry: a post has at most one relay request, sent or still to send, and
\* once the response to its relay request was not ok nothing more is sent for it.
C37_NoRetry ==
    \A i \in PostTasks :
        /\ Len(Relays(tasks[i].sent)) + Len(Relays(tasks[i].pending)) <= 1
        /\ Len(tasks[i].sent) + Len(tasks[i].pending) <= 1
        /\ (\E k \in 1..Len(tasks[i].oks) : ~tasks[i].oks[k])
               => tasks[i].pending = <<>> /\ Len(tasks[i].sent) = 1

\* C37, its case: the relay request of a post was transmitted, the response was not
\* ok, the handler has finished with the log line of line 332, and a later task has
\* had its request transmitted since.
C37_Witness ==
    /\ Len(tasks) = 2
    /\ tasks[1].kind = "post"
    /\ tasks[1].oks = <<FALSE>>
    /\ Len(Relays(tasks[1].sent)) = 1
    /\ tasks[1].pending = <<>>
    /\ tasks[2].sent # <<>>
    /\ Len(api_calls) = 2
    /\ api_calls[1] = tasks[1].sent[1]

====
